---- MODULE Spec2Model ----
(***************************************************************************)
(* BannerBoard: the control agent injected into an uploaded creative, the  *)
(* host orchestrator (registry, ReadySet, SelectionSet, global controls),  *)
(* the delegated capture, the preview file endpoint and the ingestion      *)
(* helpers (entry discovery, dimension detection).                         *)
(***************************************************************************)
EXTENDS Integers, Sequences, FiniteSets, TLC

VARIABLES
  \* ---- control agent (one creative's execution context) ----
  scriptState,            \* helper script element: "loading" | "loaded" | "failed"
  windowLoaded,           \* the window load event has fired
  rootTimeline,           \* handle the animation runtime exposes (0: none yet)
  tlPlaying,              \* play state of the runtime's root timeline
  masterTimeline,         \* var masterTimeline (0: undefined)
  lastReceivedAction,     \* var lastReceivedAction (NoAction or {action, bannerId, groupId})
  timelinePollInterval,   \* "unset" | "running" | "cleared"
  shots,                  \* html2canvas promises not yet settled
  log,                    \* trace of what the agent did (history)
  \* ---- host orchestrator (BannerBoard, GlobalControls) ----
  banners,                \* registry: sequence of creative records
  presets,                \* saved presets: sequence of registries
  selectedBannerIds,      \* SelectionSet
  readyBanners,           \* ReadySet
  isGroupPlaying,         \* GlobalControls' isGroupPlaying
  posted,                 \* group commands broadcast to the iframes (history)
  nextUuid,               \* number of uuidv4() values drawn so far
  hostOp,                 \* the last orchestrator operation (history)
  \* ---- preview file endpoint (GET /api/preview/[...slug]) ----
  slug,                   \* params.slug of the request
  response,               \* the response returned (NoResponse: none yet)
  \* ---- delegated capture (getBannerDataUri and the agents' capture branch) ----
  calls,                  \* getBannerDataUri invocations: one promise each
  toAgent,                \* captureScreenshot messages posted, not yet dispatched
  jobs,                   \* html2canvas promises of the agents, not yet settled
  toHost,                 \* messages posted to the host window, not yet dispatched
  \* ---- entry discovery (findHtmlFile) ----
  entries,                \* the listing of the extracted bundle's root
  htmlFile,               \* what findHtmlFile returned (NotRun: not called yet)
  \* ---- dimension detection (getAdSize) ----
  htmlContent,            \* the entry document, a sequence of tokens
  adSize,                 \* what getAdSize returned (NotRun: not called yet)
  \* ---- ingestion (POST /api/preview/upload) ----
  request,                \* the form data of the upload
  reply,                  \* the response returned (NoReply: none yet)
  disk,                   \* the upload's temporary directory
  \* ---- bundle upload on the host (HTML5UploadPanel.processFiles) ----
  files,                  \* the batch being processed
  batchGroup,             \* the groupId drawn for the batch
  newBanners,             \* const newBanners
  outcome,                \* what became of each file of the batch (history)
  phase,                  \* "idle" | "uploading" | "declined" | "done"
  served,                 \* uploads the endpoint has handled
  \* ---- group offered global controls (GlobalControls' useMemo) ----
  propBanners,            \* the banners prop of GlobalControls
  memoLargest,            \* useMemo(() => findLargestGroupId(banners)) (NotComputed: not yet)
  \* ---- one creative's card (BannerCard) ----
  isDataUrl,              \* banner.url.startsWith('data:')
  isLoading,              \* useState(true)
  isError,                \* useState(false)
  iframeSrc,              \* iframeRef.current.src: "url" | "about:blank"
  iframeLoad,             \* the iframe's navigation: "pending" | "loaded" | "failed"
  cardTimeoutId,          \* the effect's 10 s timer: "none" | "armed" | "inert"
  srcTimeouts,            \* handleReload's 100 ms timers not yet run
  doneTimeouts,           \* the data-URL branch's inner 100 ms timers not yet run
  effectLoading,          \* the isLoading the effect last ran with ("never": not yet run)
  reloads,                \* clicks on Reload / Try Again so far
  \* ---- persisted workspace and presets (lib/workspace, BannerBoard's load effect) ----
  storedWorkspace,        \* localStorage item 'banner-board-workspace'
  storedPresets,          \* localStorage item 'banner-board-presets'
  boardBanners,           \* the banners state after the load effect, as a JSON value
  boardPresets,           \* the presets state after the load effect, as a JSON value
  boardReady,             \* the readyBanners state after the load effect
  boot,                   \* "mounting" | "mounted" | "crashed" (uncaught exception)
  \* ---- control agent of route.ts (message listener with getMasterTimeline) ----
  listenerScript,         \* helper script element: "loading" | "loaded"
  exposedTimeline,        \* handle the runtime exposes now (0: none)
  cachedTimeline,         \* var masterTimeline of route.ts (0: undefined)
  globalPlayPause,        \* the creative has bare play and pause functions
  steps,                  \* what the listener did (history)
  \* ---- readiness announcements of the agents to the host window ----
  announced,              \* render surfaces whose agent posted bannerReady (history)
  readyPosts              \* bannerReady messages posted, not yet dispatched

agentVars == <<scriptState, windowLoaded, rootTimeline, tlPlaying, masterTimeline,
               lastReceivedAction, timelinePollInterval, shots, log>>
hostVars == <<banners, presets, selectedBannerIds, readyBanners, isGroupPlaying,
              posted, nextUuid, hostOp>>

serveVars == <<slug, response>>
captureVars == <<calls, toAgent, jobs, toHost>>
findVars == <<entries, htmlFile>>
sizeVars == <<htmlContent, adSize>>
ingestVars == <<request, reply, disk>>
uploadVars == <<files, batchGroup, newBanners, outcome, phase, served>>
memoVars == <<propBanners, memoLargest>>
storageVars == <<storedWorkspace, storedPresets, boardBanners, boardPresets, boardReady, boot>>
listenerVars == <<listenerScript, exposedTimeline, cachedTimeline, globalPlayPause, steps>>
readyVars == <<announced, readyPosts>>
cardVars == <<isDataUrl, isLoading, isError, iframeSrc, iframeLoad, cardTimeoutId, srcTimeouts,
              doneTimeouts, effectLoading, reloads>>

vars == <<agentVars, hostVars, serveVars, captureVars, findVars, sizeVars, ingestVars,
          uploadVars, memoVars, cardVars, storageVars, listenerVars, readyVars>>

\* What every step of one component leaves alone.
notAgent == <<hostVars, serveVars, captureVars, findVars, sizeVars, ingestVars, uploadVars,
              memoVars, cardVars, storageVars, listenerVars, readyVars>>
notHost == <<agentVars, serveVars, captureVars, findVars, sizeVars, ingestVars, uploadVars,
             memoVars, cardVars, storageVars, listenerVars, readyVars>>
notServe == <<agentVars, hostVars, captureVars, findVars, sizeVars, ingestVars, uploadVars,
              memoVars, cardVars, storageVars, listenerVars, readyVars>>
notCapture == <<agentVars, hostVars, serveVars, findVars, sizeVars, ingestVars, uploadVars,
                memoVars, cardVars, storageVars, listenerVars, readyVars>>
notFind == <<agentVars, hostVars, serveVars, captureVars, sizeVars, ingestVars, uploadVars,
             memoVars, cardVars, storageVars, listenerVars, readyVars>>
notSize == <<agentVars, hostVars, serveVars, captureVars, findVars, ingestVars, uploadVars,
             memoVars, cardVars, storageVars, listenerVars, readyVars>>
notIngest == <<agentVars, hostVars, serveVars, captureVars, findVars, sizeVars, uploadVars,
               memoVars, cardVars, storageVars, listenerVars, readyVars>>
notUploadNorHost == <<agentVars, serveVars, captureVars, findVars, sizeVars, ingestVars,
                      memoVars, cardVars, storageVars, listenerVars, readyVars>>
notMemo == <<agentVars, hostVars, serveVars, captureVars, findVars, sizeVars, ingestVars,
             uploadVars, cardVars, storageVars, listenerVars, readyVars>>
notCard == <<agentVars, hostVars, serveVars, captureVars, findVars, sizeVars, ingestVars,
             uploadVars, memoVars, storageVars, listenerVars, readyVars>>
notStorage == <<agentVars, hostVars, serveVars, captureVars, findVars, sizeVars, ingestVars,
                uploadVars, memoVars, cardVars, listenerVars, readyVars>>
notListener == <<agentVars, hostVars, serveVars, captureVars, findVars, sizeVars,
                 ingestVars, uploadVars, memoVars, cardVars, storageVars, readyVars>>
notReady == <<agentVars, hostVars, serveVars, captureVars, findVars, sizeVars, ingestVars,
              uploadVars, memoVars, cardVars, storageVars, listenerVars>>

Null == "null"
Undef == "undefined"
\* lastReceivedAction = null
NoAction == [action |-> Null, bannerId |-> Null, groupId |-> Null]

\* ------------------------------------------------------------------------
\* Bounds
\* ------------------------------------------------------------------------
MaxMsgs == 3            \* messages one agent receives in a run

\* ------------------------------------------------------------------------
\* Control agent
\* ------------------------------------------------------------------------
Self == "B1"            \* %%BANNER_ID%% of the agent
SelfGroup == "G1"       \* %%GROUP_ID%% of the agent

Msg(action, bannerId, groupId, width, height) ==
  [action |-> action, bannerId |-> bannerId, groupId |-> groupId,
   width |-> width, height |-> height]

\* What the host puts on the channel: single-target commands carry bannerId
\* (capture also width and height; 0 stands for an absent number), group
\* commands carry groupId only; the last one has no action field.
IndividualMsgs ==
  { Msg("play", "B1", Undef, 0, 0), Msg("pause", "B1", Undef, 0, 0),
    Msg("play", "B2", Undef, 0, 0),
    Msg("captureScreenshot", "B1", Undef, 300, 250),
    Msg("captureScreenshot", "B1", Undef, 728, 90),
    Msg("captureScreenshot", "B2", Undef, 300, 250) }
GroupMsgs ==
  { Msg(a, Undef, "G1", 0, 0) : a \in {"global-play", "global-pause", "global-restart"} }
  \cup { Msg("global-play", Undef, "G2", 0, 0) }
MalformedMsgs == { Msg(Undef, "B1", Undef, 0, 0) }
Msgs == IndividualMsgs \cup GroupMsgs \cup MalformedMsgs

NoEvent == Msg(Null, Null, Null, 0, 0)   \* window.event outside a dispatch

\* One entry of the trace: what happened (t), for which action, banner id and
\* group id, with which width/height (0: undefined) and, for a result event,
\* which isPlaying.
Entry(t, act, id, g, w, h, p) ==
  [t |-> t, act |-> act, id |-> id, g |-> g, w |-> w, h |-> h, p |-> p]

AgentState ==
  [masterTimeline |-> masterTimeline, lastReceivedAction |-> lastReceivedAction,
   timelinePollInterval |-> timelinePollInterval, tlPlaying |-> tlPlaying,
   shots |-> shots, log |-> log, thrown |-> FALSE]

RECURSIVE findMasterTimeline(_, _)
RECURSIVE handleAction(_, _, _, _, _)

\* findMasterTimeline that leaves the found timeline running.
findMasterTimeline_noPause(a, ev) ==
  IF rootTimeline # 0 /\ a.masterTimeline = 0
  THEN LET a1 == [a EXCEPT
                    !.masterTimeline = rootTimeline,
                    !.timelinePollInterval = IF @ = "running" THEN "cleared" ELSE @,
                    !.log = Append(@, Entry("post", "bannerReady", Self, Undef, 0, 0, Undef))]
           lra == a1.lastReceivedAction
       IN IF lra # NoAction
          THEN LET r == handleAction(
                          [a1 EXCEPT !.log =
                             Append(@, Entry("replay", lra.action, lra.bannerId,
                                             lra.groupId, 0, 0, Undef))],
                          lra.action, lra.bannerId, lra.groupId, ev)
               IN IF r.thrown
                  THEN r
                  ELSE [r EXCEPT !.lastReceivedAction = NoAction,
                                 !.log = Append(@, Entry("clear", Undef, Undef, Undef,
                                                         0, 0, Undef))]
          ELSE a1
  ELSE a

\* function findMasterTimeline(): a is the agent's state, ev the data of the
\* event being dispatched (NoEvent in a timer callback).  The value it returns
\* is the handle the runtime exposes now (rootTimeline).
findMasterTimeline(a, ev) ==
  IF rootTimeline # 0 /\ a.masterTimeline = 0
  THEN LET a1 == [a EXCEPT
                    !.masterTimeline = rootTimeline,
                    !.timelinePollInterval = IF @ = "running" THEN "cleared" ELSE @,
                    !.tlPlaying = FALSE,
                    !.log = @ \o << Entry("pause", Undef, Undef, Undef, 0, 0, Undef),
                                    Entry("post", "bannerReady", Self, Undef, 0, 0, Undef) >>]
           lra == a1.lastReceivedAction
       IN IF lra # NoAction
          THEN LET r == handleAction(
                          [a1 EXCEPT !.log =
                             Append(@, Entry("replay", lra.action, lra.bannerId,
                                             lra.groupId, 0, 0, Undef))],
                          lra.action, lra.bannerId, lra.groupId, ev)
               IN IF r.thrown
                  THEN r
                  ELSE [r EXCEPT !.lastReceivedAction = NoAction,
                                 !.log = Append(@, Entry("clear", Undef, Undef, Undef,
                                                         0, 0, Undef))]
          ELSE a1
  ELSE a

\* The branch of handleAction for a command addressed to this creative's id.
individualControls(a, action, bannerId, ev) ==
  IF bannerId # Self THEN a
  ELSE IF action \in {"captureScreenshot", "captureScreenshotForAI"}
  THEN IF ev = NoEvent
       THEN \* window.event is undefined: reading .data throws a TypeError
            [a EXCEPT !.thrown = TRUE,
                      !.log = Append(@, Entry("throw", action, bannerId, Undef, 0, 0, Undef))]
       ELSE [a EXCEPT !.shots = Append(@, [action |-> action, bannerId |-> bannerId]),
                      !.log = Append(@, Entry("shot", action, bannerId, Undef,
                                              ev.width, ev.height, Undef))]
  ELSE IF action = "play"
  THEN [a EXCEPT !.tlPlaying = TRUE,
                 !.log = @ \o << Entry("play", action, bannerId, Undef, 0, 0, Undef),
                                 Entry("post", "playPauseSuccess", bannerId, Undef,
                                       0, 0, "true") >>]
  ELSE IF action = "pause"
  THEN [a EXCEPT !.tlPlaying = FALSE,
                 !.log = @ \o << Entry("pause", action, bannerId, Undef, 0, 0, Undef),
                                 Entry("post", "playPauseSuccess", bannerId, Undef,
                                       0, 0, "false") >>]
  ELSE a

\* The branch of handleAction for a command addressed to this creative's group.
groupControls(a, action, groupId) ==
  IF groupId # Undef /\ groupId = SelfGroup
  THEN IF action = "global-play"
       THEN [a EXCEPT !.tlPlaying = TRUE,
                      !.log = Append(@, Entry("play", action, Undef, groupId, 0, 0, Undef))]
       ELSE IF action = "global-pause"
       THEN [a EXCEPT !.tlPlaying = FALSE,
                      !.log = Append(@, Entry("pause", action, Undef, groupId, 0, 0, Undef))]
       ELSE IF action = "global-restart"
       THEN [a EXCEPT !.tlPlaying = TRUE,
                      !.log = Append(@, Entry("restart", action, Undef, groupId, 0, 0, Undef))]
       ELSE a
  ELSE a

\* function handleAction(action, bannerId, groupId)
handleAction(a, action, bannerId, groupId, ev) ==
  LET a1 == findMasterTimeline(a, ev) IN
  IF a1.thrown THEN a1
  ELSE IF rootTimeline = 0
  THEN [a1 EXCEPT
          !.lastReceivedAction = [action |-> action, bannerId |-> bannerId,
                                  groupId |-> groupId],
          !.log = Append(@, Entry("queue", action, bannerId, groupId, 0, 0, Undef))]
  ELSE LET a2 == individualControls(a1, action, bannerId, ev) IN
       IF a2.thrown THEN a2 ELSE groupControls(a2, action, groupId)

\* Write an agent state back to the variables (an uncaught exception ends the
\* task; what was assigned before it stays).
Commit(a) ==
  /\ masterTimeline' = a.masterTimeline
  /\ lastReceivedAction' = a.lastReceivedAction
  /\ timelinePollInterval' = a.timelinePollInterval
  /\ tlPlaying' = a.tlPlaying
  /\ shots' = a.shots
  /\ log' = a.log

NumRecv == Cardinality({ i \in 1..Len(log) : log[i].t = "recv" })

\* script.onload of the helper script: the agent's listeners are registered.
ScriptOnload ==
  /\ scriptState = "loading"
  /\ scriptState' = "loaded"
  /\ UNCHANGED <<windowLoaded, rootTimeline, tlPlaying, masterTimeline,
                 lastReceivedAction, timelinePollInterval, shots, log>>
  /\ UNCHANGED notAgent

\* The helper script cannot be fetched: onload never runs.
ScriptError ==
  /\ scriptState = "loading"
  /\ scriptState' = "failed"
  /\ UNCHANGED <<windowLoaded, rootTimeline, tlPlaying, masterTimeline,
                 lastReceivedAction, timelinePollInterval, shots, log>>
  /\ UNCHANGED notAgent

\* The window load event without the load listener's setInterval.
WindowLoad_noInterval ==
  /\ ~windowLoaded
  /\ scriptState # "loading"
  /\ windowLoaded' = TRUE
  /\ UNCHANGED <<scriptState, rootTimeline, tlPlaying, masterTimeline,
                 lastReceivedAction, timelinePollInterval, shots, log>>
  /\ UNCHANGED notAgent

\* The window load event (the pending script fetch delays it); the load
\* listener starts the polling timer.
WindowLoad ==
  /\ ~windowLoaded
  /\ scriptState # "loading"
  /\ windowLoaded' = TRUE
  /\ timelinePollInterval' =
       IF scriptState = "loaded" THEN "running" ELSE timelinePollInterval
  /\ UNCHANGED <<scriptState, rootTimeline, tlPlaying, masterTimeline,
                 lastReceivedAction, shots, log>>
  /\ UNCHANGED notAgent

\* The creative's animation runtime finishes initialising and exposes its
\* root timeline, which is playing.
RuntimeReady ==
  /\ rootTimeline = 0
  /\ rootTimeline' = 1
  /\ tlPlaying' = TRUE
  /\ UNCHANGED <<scriptState, windowLoaded, masterTimeline, lastReceivedAction,
                 timelinePollInterval, shots, log>>
  /\ UNCHANGED notAgent

\* One tick of setInterval(findMasterTimeline, 100).
PollTick ==
  /\ timelinePollInterval = "running"
  /\ Commit(findMasterTimeline(AgentState, NoEvent))
  /\ UNCHANGED <<scriptState, windowLoaded, rootTimeline>>
  /\ UNCHANGED notAgent

\* The message listener, for one message.
Receive(m) ==
  /\ scriptState = "loaded"
  /\ NumRecv < MaxMsgs
  /\ LET a0 == [AgentState EXCEPT
                  !.log = Append(@, Entry("recv", m.action, m.bannerId, m.groupId,
                                          m.width, m.height, Undef))]
     IN IF m.action = Undef
        THEN Commit(a0)
        ELSE Commit(handleAction(a0, m.action, m.bannerId, m.groupId, m))
  /\ UNCHANGED <<scriptState, windowLoaded, rootTimeline>>
  /\ UNCHANGED notAgent

\* html2canvas resolves: the screenshotCaptured response.
ShotResolve ==
  /\ shots # << >>
  /\ shots' = Tail(shots)
  /\ log' = Append(log, Entry("post",
                               IF Head(shots).action = "captureScreenshot"
                               THEN "screenshotCaptured" ELSE "screenshotCapturedForAI",
                               Head(shots).bannerId, Undef, 0, 0, Undef))
  /\ UNCHANGED <<scriptState, windowLoaded, rootTimeline, tlPlaying, masterTimeline,
                 lastReceivedAction, timelinePollInterval>>
  /\ UNCHANGED notAgent

\* html2canvas rejects: the screenshotFailed response.
ShotReject ==
  /\ shots # << >>
  /\ shots' = Tail(shots)
  /\ log' = Append(log, Entry("post", "screenshotFailed", Head(shots).bannerId, Undef, 0, 0, Undef))
  /\ UNCHANGED <<scriptState, windowLoaded, rootTimeline, tlPlaying, masterTimeline,
                 lastReceivedAction, timelinePollInterval>>
  /\ UNCHANGED notAgent

\* The agent when its document starts loading.
AgentStart ==
  /\ scriptState = "loading"
  /\ windowLoaded = FALSE
  /\ rootTimeline = 0
  /\ tlPlaying = FALSE
  /\ masterTimeline = 0
  /\ lastReceivedAction = NoAction
  /\ timelinePollInterval = "unset"
  /\ shots = << >>
  /\ log = << >>

NextAgent ==
  \/ ScriptOnload
  \/ ScriptError
  \/ WindowLoad
  \/ RuntimeReady
  \/ PollTick
  \/ \E m \in Msgs : Receive(m)
  \/ ShotResolve
  \/ ShotReject

\* The messages that matter to discovery: a command of each scope for this
\* agent, one for another creative and one without action.
DiscoveryMsgs ==
  { Msg("play", "B1", Undef, 0, 0), Msg("play", "B2", Undef, 0, 0),
    Msg("global-pause", Undef, "G1", 0, 0), Msg(Undef, "B1", Undef, 0, 0) }

\* The agent's steps up to discovery and the play and pause commands.
NextDiscovery ==
  \/ ScriptOnload
  \/ ScriptError
  \/ WindowLoad
  \/ RuntimeReady
  \/ PollTick
  \/ \E m \in DiscoveryMsgs : Receive(m)


\* ------------------------------------------------------------------------
\* Claims about the control agent
\* ------------------------------------------------------------------------
IsPost(e) == e.t = "post"
Posts(l) == SelectSeq(l, IsPost)

\* Index of the bannerReady post in the trace (0: not posted yet).
ReadyIdx ==
  LET S == { i \in 1..Len(log) : log[i].t = "post" /\ log[i].act = "bannerReady" }
  IN IF S = {} THEN 0 ELSE CHOOSE i \in S : \A j \in S : i <= j

\* A received message is addressed to this agent.
ToSelf(e) == e.id = Self \/ e.g = SelfGroup

\* What executing the command of the received message e against the found
\* timeline must leave in the trace.
Executed(e) ==
  IF e.act = "captureScreenshot"
  THEN << Entry("shot", e.act, e.id, Undef, e.w, e.h, Undef) >>
  ELSE IF e.act = "play"
  THEN << Entry("play", e.act, e.id, Undef, 0, 0, Undef),
          Entry("post", "playPauseSuccess", e.id, Undef, 0, 0, "true") >>
  ELSE IF e.act = "pause"
  THEN << Entry("pause", e.act, e.id, Undef, 0, 0, Undef),
          Entry("post", "playPauseSuccess", e.id, Undef, 0, 0, "false") >>
  ELSE IF e.act = "global-play"
  THEN << Entry("play", e.act, Undef, e.g, 0, 0, Undef) >>
  ELSE IF e.act = "global-pause"
  THEN << Entry("pause", e.act, Undef, e.g, 0, 0, Undef) >>
  ELSE << Entry("restart", e.act, Undef, e.g, 0, 0, Undef) >>

\* The trace right after the bannerReady post starts with s.
AfterReady(s) ==
  /\ Len(log) >= ReadyIdx + Len(s)
  /\ SubSeq(log, ReadyIdx + 1, ReadyIdx + Len(s)) = s

RecvBeforeReady == { i \in 1..ReadyIdx : log[i].t = "recv" }
\* Received messages that were queued (handled while no handle was found).
QueuedRecv == { i \in RecvBeforeReady : log[i + 1].t = "queue" }

\* C1: a command for this agent's own banner id that is the only message
\* received before discovery is executed exactly once right after the
\* bannerReady post, with the fields (width, height) of that message.
C1_QueuedCommandReplayed ==
  (ReadyIdx > 0 /\ Cardinality(RecvBeforeReady) = 1) =>
    \A i \in RecvBeforeReady :
      (log[i].id = Self /\ log[i].act \in {"play", "pause", "captureScreenshot"}) =>
        IF i \in QueuedRecv
        THEN AfterReady(<< Entry("replay", log[i].act, log[i].id, log[i].g, 0, 0, Undef) >>
                        \o Executed(log[i])
                        \o << Entry("clear", Undef, Undef, Undef, 0, 0, Undef) >>)
        ELSE AfterReady(Executed(log[i]))

\* C2: when two or more commands addressed to this agent were queued before
\* discovery, exactly the last of them is executed at discovery and the
\* pending slot is empty afterwards.
C2_LastWriterWins ==
  LET own == { i \in QueuedRecv : ToSelf(log[i]) } IN
  (ReadyIdx > 0 /\ Cardinality(own) >= 2) =>
    LET last == CHOOSE i \in own : \A j \in own : j <= i IN
      /\ AfterReady(<< Entry("replay", log[last].act, log[last].id, log[last].g, 0, 0, Undef) >>
                    \o Executed(log[last])
                    \o << Entry("clear", Undef, Undef, Undef, 0, 0, Undef) >>)
      /\ lastReceivedAction = NoAction

\* A message that is neither for this agent's banner id nor for its group.
IsForeign(m) ==
  /\ m.action # Undef
  /\ m.bannerId # Self
  /\ (m.groupId = Undef \/ m.groupId # SelfGroup)

\* C3: handling a message addressed to another creative and another (or no)
\* group changes neither the pending slot, nor the discovery status, nor the
\* timeline's play state, and posts nothing.
C3_ForeignIgnored ==
  [][ \A m \in Msgs :
        (IsForeign(m) /\ Receive(m)) =>
          /\ lastReceivedAction' = lastReceivedAction
          /\ masterTimeline' = masterTimeline
          /\ tlPlaying' = tlPlaying
          /\ Posts(log') = Posts(log) ]_vars

\* A received play or pause command for this agent's banner id.
IsOwnPlayPause(e) == e.t = "recv" /\ e.id = Self /\ e.act \in {"play", "pause"}
\* A result event of a play or pause command.
IsPlayPauseResult(e) ==
  e.t = "post" /\ e.act \in {"playPauseSuccess", "playPauseFailed"}

\* C14: every play or pause command for this agent's own id is answered by
\* exactly one result event: once a message has been handled there are as
\* many result events as such commands, and the k-th result is playPauseFailed
\* or the success result with the isPlaying of the k-th command.
C14_OneResultPerCommand ==
  LET cmds == SelectSeq(log, IsOwnPlayPause)
      results == SelectSeq(log, IsPlayPauseResult)
  IN /\ Len(results) = Len(cmds)
     /\ \A k \in 1..Len(results) :
          /\ results[k].id = Self
          /\ \/ results[k].act = "playPauseFailed"
             \/ results[k].p = (IF cmds[k].act = "play" THEN "true" ELSE "false")

\* A command applied to the timeline: mt.play(), mt.pause() or mt.play(0)
\* in handleAction (the pause of the discovery carries no action).
IsApplied(e) == e.t \in {"play", "pause", "restart"} /\ e.act # Undef
ReadyPosts == { i \in 1..Len(log) : log[i].t = "post" /\ log[i].act = "bannerReady" }

\* C20: bannerReady is posted at most once, right after the discovered
\* timeline was paused, and every application of a command to the timeline
\* comes after that post.
C20_ReadyOnceThenCommands ==
  /\ Cardinality(ReadyPosts) <= 1
  /\ \A i \in ReadyPosts :
       /\ i > 1
       /\ log[i - 1] = Entry("pause", Undef, Undef, Undef, 0, 0, Undef)
       /\ masterTimeline # 0
  /\ \A i \in 1..Len(log) : IsApplied(log[i]) => (ReadyIdx > 0 /\ ReadyIdx < i)

\* C20's case: the timeline was discovered with a command pending, the
\* command was replayed and applied, and a later command was applied too.
C20_Witness ==
  /\ ReadyIdx > 0
  /\ Len(log) > ReadyIdx + 1
  /\ log[ReadyIdx + 1].t = "replay"
  /\ IsApplied(log[ReadyIdx + 2])
  /\ \E i \in (ReadyIdx + 3)..Len(log) : IsApplied(log[i]) /\ log[i].g = SelfGroup

\* C21: once a timeline handle has been found polling is stopped: no
\* interval timer that invokes findMasterTimeline is running, whether the
\* handle was found before or after the window load event that starts it.
C21_PollingStops ==
  masterTimeline # 0 => timelinePollInterval # "running"

\* C27: once the helper script has loaded and the runtime exposes its
\* timeline, the agent eventually finds the handle, pauses it and posts
\* bannerReady, whether the runtime started before or after the script
\* loaded and whether or not messages arrive.
C27_EventuallyReady ==
  (scriptState = "loaded" /\ rootTimeline # 0)
    ~> (/\ masterTimeline = rootTimeline
        /\ \E i \in ReadyPosts : i > 1 /\ log[i - 1].t = "pause")

\* C27's case: no message was received and a tick of the polling timer
\* found the handle.
C27_Witness ==
  /\ NumRecv = 0
  /\ ReadyPosts # {}
  /\ masterTimeline = rootTimeline
  /\ timelinePollInterval = "cleared"

\* ------------------------------------------------------------------------
\* Host orchestrator (BannerBoard) and GlobalControls
\* ------------------------------------------------------------------------
MaxBanners == 2         \* creatives in the registry
MaxUuid == 5            \* uuidv4() values drawn in a run
MaxPosts == 1           \* group commands broadcast in a run
MaxPresets == 1         \* saved presets

\* A creative record.  url is the part of the url the code looks at; groupId
\* and key are 0 when the field is absent; ids, group ids and keys are
\* uuidv4() values, modelled by the order in which they were drawn.
Banner(id, url, groupId, key) == [id |-> id, url |-> url, groupId |-> groupId, key |-> key]

PreviewUrl == "/api/preview/"
RemoteUrl == "https://"
\* String.prototype.startsWith
startsWith(s, prefix) == Len(s) >= Len(prefix) /\ SubSeq(s, 1, Len(prefix)) = prefix

\* b.url.startsWith('/api/preview')
IsPreview(b) == startsWith(b.url, "/api/preview")

\* key={banner.key || banner.id}: the React key of the creative's card.
RenderKey(b) == IF b.key # 0 THEN b.key ELSE b.id

Ids(bs) == { bs[i].id : i \in 1..Len(bs) }

\* The keys of groupCounts in insertion order (the reduce of findLargestGroupId).
RECURSIVE groupKeys(_)
groupKeys(bs) ==
  IF bs = << >> THEN << >>
  ELSE LET front == SubSeq(bs, 1, Len(bs) - 1)
           ks == groupKeys(front)
           g == bs[Len(bs)].groupId
       IN IF g # 0 /\ \A i \in 1..Len(ks) : ks[i] # g THEN Append(ks, g) ELSE ks

groupCount(bs, g) == Cardinality({ i \in 1..Len(bs) : bs[i].groupId = g })

\* The for..in loop of findLargestGroupId from key i on.
RECURSIVE largestFrom(_, _, _, _, _)
largestFrom(bs, ks, i, largestGroupId, maxCount) ==
  IF i > Len(ks) THEN largestGroupId
  ELSE IF groupCount(bs, ks[i]) > maxCount
       THEN largestFrom(bs, ks, i + 1, ks[i], groupCount(bs, ks[i]))
       ELSE largestFrom(bs, ks, i + 1, largestGroupId, maxCount)

findLargestGroupId_firstGroup(bs) ==
  IF groupKeys(bs) = << >> THEN 0 ELSE groupKeys(bs)[1]

\* function findLargestGroupId(banners); 0 stands for null.
findLargestGroupId(bs) ==
  IF Len(bs) = 0 THEN 0 ELSE largestFrom(bs, groupKeys(bs), 1, 0, 0)

allInGroupReady_unchecked(bs, ready, g) == TRUE

\* groupBanners.every(b => readyBanners.has(b.id))
allInGroupReady(bs, ready, g) ==
  \A i \in 1..Len(bs) : bs[i].groupId = g => bs[i].id \in ready

\* handleGlobalAction(action): the sequence of broadcasts after the call.
handleGlobalAction(action) ==
  LET g == findLargestGroupId(banners) IN
  IF ~allInGroupReady(banners, readyBanners, g) /\ action # "global-restart"
  THEN posted
  ELSE Append(posted, [action |-> action, groupId |-> g])

handleReloadGroup_keepReady(bs, ready, groupId, n) ==
  [banners |-> [i \in 1..Len(bs) |->
                  IF bs[i].groupId = groupId
                  THEN [bs[i] EXCEPT !.key =
                          n + Cardinality({ j \in 1..i : bs[j].groupId = groupId })]
                  ELSE bs[i]],
   ready |-> ready,
   drawn |-> n + groupCount(bs, groupId)]

\* handleReloadGroup(groupId), with n uuids drawn before the call: the new
\* registry, the new ReadySet and the number of uuids drawn after it.
handleReloadGroup(bs, ready, groupId, n) ==
  [banners |-> [i \in 1..Len(bs) |->
                  IF bs[i].groupId = groupId
                  THEN [bs[i] EXCEPT !.key =
                          n + Cardinality({ j \in 1..i : bs[j].groupId = groupId })]
                  ELSE bs[i]],
   ready |-> ready \ { bs[i].id : i \in { j \in 1..Len(bs) : bs[j].groupId = groupId } },
   drawn |-> n + groupCount(bs, groupId)]

\* The last operation: its name and, for reloadGroup, the group and whether a
\* member of it was in ReadySet before.
Op(name, g, cleared) == [name |-> name, g |-> g, cleared |-> cleared]

\* handleAddBanners that marks every new creative ready.
handleAddBanners_allReady(bs, ready, given, n) ==
  LET bannersToAdd ==
        [k \in 1..Len(given) |->
           IF given[k].id # 0 THEN given[k]
           ELSE [given[k] EXCEPT !.id =
                   n + Cardinality({ j \in 1..k : given[j].id = 0 })]]
  IN [banners |-> bs \o bannersToAdd,
      ready |-> ready \cup { bannersToAdd[k].id : k \in 1..Len(bannersToAdd) },
      drawn |-> n + Cardinality({ j \in 1..Len(given) : given[j].id = 0 })]

\* handleAddBanners(given), with n uuids drawn before the call: a new
\* creative without id gets a uuid (id: b.id || uuidv4()); the new registry,
\* the new ReadySet and the number of uuids drawn after it.
handleAddBanners(bs, ready, given, n) ==
  LET bannersToAdd ==
        [k \in 1..Len(given) |->
           IF given[k].id # 0 THEN given[k]
           ELSE [given[k] EXCEPT !.id =
                   n + Cardinality({ j \in 1..k : given[j].id = 0 })]]
  IN [banners |-> bs \o bannersToAdd,
      ready |-> ready \cup { bannersToAdd[k].id :
                               k \in { j \in 1..Len(bannersToAdd) :
                                         ~IsPreview(bannersToAdd[j]) } },
      drawn |-> n + Cardinality({ j \in 1..Len(given) : given[j].id = 0 })]

\* handleAddBanners for n creatives given by url (BannerInputPanel): no group.
AddUrlBanners(n) ==
  /\ Len(banners) + n <= MaxBanners
  /\ nextUuid + n <= MaxUuid
  /\ LET r == handleAddBanners(banners, readyBanners,
                               [k \in 1..n |-> Banner(0, RemoteUrl, 0, 0)], nextUuid) IN
       /\ banners' = r.banners
       /\ readyBanners' = r.ready
       /\ nextUuid' = r.drawn
  /\ hostOp' = Op("addBanners", 0, FALSE)
  /\ UNCHANGED <<presets, selectedBannerIds, isGroupPlaying, posted>>
  /\ UNCHANGED notHost

\* processFiles then handleAddBanners for a batch of n uploaded bundles: one
\* fresh groupId for the batch, urls under /api/preview.
AddHtml5Banners(n) ==
  /\ Len(banners) + n <= MaxBanners
  /\ nextUuid + n + 1 <= MaxUuid
  /\ LET groupId == nextUuid + 1
         r == handleAddBanners(banners, readyBanners,
                               [k \in 1..n |-> Banner(0, PreviewUrl, groupId, 0)], groupId) IN
       /\ banners' = r.banners
       /\ readyBanners' = r.ready
       /\ nextUuid' = r.drawn
  /\ hostOp' = Op("addBanners", 0, FALSE)
  /\ UNCHANGED <<presets, selectedBannerIds, isGroupPlaying, posted>>
  /\ UNCHANGED notHost

\* handleToggleGlobalPlayPause; its button is disabled unless allInGroupReady.
ToggleGlobalPlayPause ==
  /\ findLargestGroupId(banners) # 0
  /\ allInGroupReady(banners, readyBanners, findLargestGroupId(banners))
  /\ Len(posted) < MaxPosts
  /\ posted' = handleGlobalAction(IF ~isGroupPlaying THEN "global-play" ELSE "global-pause")
  /\ isGroupPlaying' = ~isGroupPlaying
  /\ hostOp' = Op("togglePlayPause", 0, FALSE)
  /\ UNCHANGED <<banners, presets, selectedBannerIds, readyBanners, nextUuid>>
  /\ UNCHANGED notHost

\* handleSoftReload; its button is never disabled.
SoftReload ==
  /\ findLargestGroupId(banners) # 0
  /\ Len(posted) < MaxPosts
  /\ posted' = handleGlobalAction("global-restart")
  /\ isGroupPlaying' = TRUE
  /\ hostOp' = Op("softReload", 0, FALSE)
  /\ UNCHANGED <<banners, presets, selectedBannerIds, readyBanners, nextUuid>>
  /\ UNCHANGED notHost

\* handleHardReload: onReloadGroup(largestGroupId).
HardReload ==
  /\ findLargestGroupId(banners) # 0
  /\ nextUuid + groupCount(banners, findLargestGroupId(banners)) <= MaxUuid
  /\ LET r == handleReloadGroup(banners, readyBanners, findLargestGroupId(banners),
                                nextUuid) IN
       /\ banners' = r.banners
       /\ readyBanners' = r.ready
       /\ nextUuid' = r.drawn
  /\ isGroupPlaying' = FALSE
  /\ hostOp' = Op("reloadGroup", findLargestGroupId(banners),
               \E i \in 1..Len(banners) :
                  /\ banners[i].groupId = findLargestGroupId(banners)
                  /\ banners[i].id \in readyBanners)
  /\ UNCHANGED <<presets, selectedBannerIds, posted>>
  /\ UNCHANGED notHost

\* handleRemoveBanner(bannerId)
RemoveBanner(bannerId) ==
  /\ bannerId \in Ids(banners)
  /\ banners' = SelectSeq(banners, LAMBDA b : b.id # bannerId)
  /\ selectedBannerIds' = selectedBannerIds \ {bannerId}
  /\ readyBanners' = readyBanners \ {bannerId}
  /\ hostOp' = Op("removeBanner", 0, FALSE)
  /\ UNCHANGED <<presets, isGroupPlaying, posted, nextUuid>>
  /\ UNCHANGED notHost

\* handleToggleSelection(bannerId)
ToggleSelection(bannerId) ==
  /\ bannerId \in Ids(banners)
  /\ selectedBannerIds' = IF bannerId \in selectedBannerIds
                          THEN selectedBannerIds \ {bannerId}
                          ELSE selectedBannerIds \cup {bannerId}
  /\ hostOp' = Op("toggleSelection", 0, FALSE)
  /\ UNCHANGED <<banners, presets, readyBanners, isGroupPlaying, posted, nextUuid>>
  /\ UNCHANGED notHost

\* handleSavePreset(name) with a non-empty name.
SavePreset ==
  /\ Len(presets) < MaxPresets
  /\ nextUuid + 1 <= MaxUuid
  /\ presets' = Append(presets, [id |-> nextUuid + 1, banners |-> banners])
  /\ nextUuid' = nextUuid + 1
  /\ hostOp' = Op("savePreset", 0, FALSE)
  /\ UNCHANGED <<banners, selectedBannerIds, readyBanners, isGroupPlaying, posted>>
  /\ UNCHANGED notHost

\* handleLoadPreset(presetId) for the i-th preset.
LoadPreset(i) ==
  /\ i \in 1..Len(presets)
  /\ banners' = presets[i].banners
  /\ readyBanners' = Ids(presets[i].banners)
  /\ hostOp' = Op("loadPreset", 0, FALSE)
  /\ UNCHANGED <<presets, selectedBannerIds, isGroupPlaying, posted, nextUuid>>
  /\ UNCHANGED notHost

\* The orchestrator when BannerBoard mounts with an empty workspace.
HostStart ==
  /\ banners = << >>
  /\ presets = << >>
  /\ selectedBannerIds = {}
  /\ readyBanners = {}
  /\ isGroupPlaying = FALSE
  /\ posted = << >>
  /\ nextUuid = 0
  /\ hostOp = Op("init", 0, FALSE)

NextHost ==
  \/ \E n \in 1..2 : AddUrlBanners(n)
  \/ \E n \in 1..2 : AddHtml5Banners(n)
  \/ ToggleGlobalPlayPause
  \/ SoftReload
  \/ HardReload
  \/ \E id \in Ids(banners) : RemoveBanner(id)
  \/ \E id \in Ids(banners) : ToggleSelection(id)
  \/ SavePreset
  \/ \E i \in 1..Len(presets) : LoadPreset(i)


\* ------------------------------------------------------------------------
\* Claims about the host orchestrator
\* ------------------------------------------------------------------------
\* Every creative of group g in the registry is in ReadySet.
GroupReady(g) ==
  \A i \in 1..Len(banners) : banners[i].groupId = g => banners[i].id \in readyBanners

\* C4 as stated: a group command (global-play, global-pause or global-restart)
\* is posted to the iframes only when every member of the target group is in
\* ReadySet.
C4_GroupCommandNeedsReady ==
  [][ posted' # posted => GroupReady(posted'[Len(posted')].groupId) ]_vars

\* C4 as amended: global-play and global-pause are posted only when every
\* member of the target group is in ReadySet; soft reload posts
\* global-restart whatever the readiness, and hard reload, also permitted
\* whatever the readiness, posts nothing.
C4_PlayPauseNeedReady ==
  /\ [][ posted' # posted =>
           LET m == posted'[Len(posted')] IN
             /\ posted' = Append(posted, m)
             /\ m.groupId = findLargestGroupId(banners)
             /\ m.action \in {"global-play", "global-pause"} => GroupReady(m.groupId) ]_vars
  /\ [][ SoftReload =>
           posted' = Append(posted, [action |-> "global-restart",
                                     groupId |-> findLargestGroupId(banners)]) ]_vars
  /\ [][ HardReload => posted' = posted ]_vars

\* C4's case: global-play was posted for a group (all of whose members were
\* then in ReadySet).
C4_Witness ==
  /\ hostOp.name = "togglePlayPause"
  /\ \E i \in 1..Len(posted) : posted[i].action = "global-play"

\* C5: hard reload of group G removes exactly the members of G from ReadySet,
\* gives each of them a fresh render key, and leaves every creative outside G
\* (record and readiness), the SelectionSet and the registry order unchanged.
C5_ReloadGroupFrame ==
  [][ HardReload =>
        LET G == findLargestGroupId(banners)
            oldKeys == { RenderKey(banners[i]) : i \in 1..Len(banners) }
        IN /\ Len(banners') = Len(banners)
           /\ \A i \in 1..Len(banners) :
                /\ banners'[i].id = banners[i].id
                /\ IF banners[i].groupId = G
                   THEN /\ banners'[i].id \notin readyBanners'
                        /\ RenderKey(banners'[i]) \notin oldKeys
                        /\ \A j \in 1..Len(banners) :
                             j # i => RenderKey(banners'[j]) # RenderKey(banners'[i])
                        /\ [banners'[i] EXCEPT !.key = 0] = [banners[i] EXCEPT !.key = 0]
                   ELSE /\ banners'[i] = banners[i]
                        /\ (banners'[i].id \in readyBanners') = (banners[i].id \in readyBanners)
           /\ readyBanners' \subseteq readyBanners
           /\ selectedBannerIds' = selectedBannerIds ]_vars

\* C5's case: a reload has just cleared a Ready member of its group while a
\* creative outside the group is Ready and a creative is selected.
C5_Witness ==
  /\ hostOp.name = "reloadGroup"
  /\ hostOp.cleared
  /\ selectedBannerIds # {}
  /\ \E i \in 1..Len(banners) :
       banners[i].groupId # hostOp.g /\ banners[i].id \in readyBanners

\* ------------------------------------------------------------------------
\* Preview file endpoint: GET /api/preview/[...slug]
\* ------------------------------------------------------------------------
MaxSlug == 4            \* segments of a request path

\* The segments a request path is made of.
Segments == {"a", "ab", "..", ".", "index.html"}
Slugs == UNION { [1..n -> Segments] : n \in 0..MaxSlug }

\* path.join(os.tmpdir(), 'bannerboard-previews'), as path segments.
PreviewsRoot == <<"tmp", "bannerboard-previews">>

\* The regular files on disk: the entry documents of creatives "a" and "ab",
\* and a file of another program in the temporary directory.
Files == { PreviewsRoot \o <<"a", "index.html">>,
           PreviewsRoot \o <<"ab", "index.html">>,
           <<"tmp", "index.html">> }
IsDirectory(p) == \E f \in Files : Len(f) > Len(p) /\ SubSeq(f, 1, Len(p)) = p

RECURSIVE normalize(_, _)
\* path.normalize of an absolute path: "." and empty segments are dropped and
\* ".." removes the segment before it (none at the root).
normalize(done, rest) ==
  IF rest = << >> THEN done
  ELSE LET s == Head(rest) IN
       IF s = "." \/ s = ""
       THEN normalize(done, Tail(rest))
       ELSE IF s = ".."
       THEN normalize(IF done = << >> THEN << >> ELSE SubSeq(done, 1, Len(done) - 1),
                      Tail(rest))
       ELSE normalize(Append(done, s), Tail(rest))

\* path.join(base, ...parts) for an absolute base.
join(base, parts) == normalize(<< >>, base \o parts)

RECURSIVE text(_)
text(segs) == IF segs = << >> THEN "" ELSE "/" \o Head(segs) \o text(Tail(segs))
\* The string a path is in the program.
pathString(segs) == IF segs = << >> THEN "/" ELSE text(segs)

\* A response: status and, for 200, the file whose content is the body.
Response(status, body) == [status |-> status, body |-> body]
NoResponse == Response(0, << >>)

\* fs.readFile(absoluteFilePath) and what GET makes of its outcome.
readFile(p) ==
  IF p \in Files THEN Response(200, p)
  ELSE IF IsDirectory(p) THEN Response(500, << >>)     \* EISDIR
  ELSE Response(404, << >>)                            \* ENOENT

\* export async function GET(req, { params })
GET(sl) ==
  LET bannerId == IF sl = << >> THEN "" ELSE Head(sl)
      filePathParts == IF sl = << >> THEN << >> ELSE Tail(sl)
  IN IF bannerId = "" \/ filePathParts = << >>
     THEN Response(400, << >>)
     ELSE LET tempDir == join(PreviewsRoot, <<bannerId>>)
              absoluteFilePath == join(tempDir, filePathParts)
          IN IF ~startsWith(pathString(absoluteFilePath), pathString(tempDir))
             THEN Response(403, << >>)
             ELSE readFile(absoluteFilePath)

\* The endpoint answers the request.
Get ==
  /\ response = NoResponse
  /\ response' = GET(slug)
  /\ UNCHANGED slug
  /\ UNCHANGED notServe

NextServe == Get

\* ------------------------------------------------------------------------
\* Claims about the preview file endpoint
\* ------------------------------------------------------------------------
\* The storage directory scoped to a creative id, and containment in it.
ScopedRoot(creativeId) == join(PreviewsRoot, <<creativeId>>)
Inside(p, root) == Len(p) >= Len(root) /\ SubSeq(p, 1, Len(root)) = root

\* C6: a request (creativeId, relativePath) whose resolved path is not inside
\* the storage directory scoped to creativeId is answered 403 and gets no
\* file content.
C6_EscapeForbidden ==
  (response # NoResponse /\ Len(slug) >= 2) =>
    LET root == ScopedRoot(Head(slug))
        resolved == join(root, Tail(slug))
    IN ~Inside(resolved, root) => (response.status = 403 /\ response.body = << >>)

\* ------------------------------------------------------------------------
\* Delegated capture: getBannerDataUri for an /api/preview creative, and the
\* captureScreenshot branch of the creatives' agents
\* ------------------------------------------------------------------------
MaxCalls == 2           \* getBannerDataUri invocations in a run

\* The /api/preview creatives on the board.
Previews == {"B1", "B2"}

\* One invocation: its promise (state, error), the request whose response
\* settled it (by, 0: none), whether handleMessage is still registered and
\* the state of its timer.
Call(bannerId, state, error, by, listening, timeoutId) ==
  [bannerId |-> bannerId, state |-> state, error |-> error, by |-> by,
   listening |-> listening, timeoutId |-> timeoutId]

\* A message between the windows; req is the invocation whose request it is,
\* or whose request it answers.
Post(action, bannerId, req) == [action |-> action, bannerId |-> bannerId, req |-> req]

\* The positions of s other than i, in order.
Without(s, i) == SubSeq(s, 1, i - 1) \o SubSeq(s, i + 1, Len(s))

\* The messages of a queue that are next for their window: none before them
\* is for the same creative.
NextFor(q) == { i \in 1..Len(q) : \A j \in 1..(i - 1) : q[j].bannerId # q[i].bannerId }

\* getBannerDataUri(banner), case 2; hasIframe: the iframe of the creative is
\* in the document.
getBannerDataUri(bannerId, hasIframe) ==
  /\ Len(calls) < MaxCalls
  /\ IF ~hasIframe
     THEN /\ calls' = Append(calls, Call(bannerId, "rejected", "noIframe", 0, FALSE, "none"))
          /\ UNCHANGED toAgent
     ELSE /\ calls' = Append(calls, Call(bannerId, "pending", "", 0, TRUE, "armed"))
          /\ toAgent' = Append(toAgent, Post("captureScreenshot", bannerId, Len(calls) + 1))
  /\ UNCHANGED <<jobs, toHost>>
  /\ UNCHANGED notCapture

\* The agent of the creative handles a captureScreenshot: html2canvas starts.
AgentCapture(i) ==
  /\ i \in NextFor(toAgent)
  /\ jobs' = Append(jobs, Post("captureScreenshot", toAgent[i].bannerId, toAgent[i].req))
  /\ toAgent' = Without(toAgent, i)
  /\ UNCHANGED <<calls, toHost>>
  /\ UNCHANGED notCapture

\* The creative does not act on a captureScreenshot: no agent listens in it,
\* or the agent has no timeline yet and only stores the command.
AgentSilent(i) ==
  /\ i \in NextFor(toAgent)
  /\ toAgent' = Without(toAgent, i)
  /\ UNCHANGED <<calls, jobs, toHost>>
  /\ UNCHANGED notCapture

\* html2canvas resolves: screenshotCaptured is posted to the parent.
JobResolve(j) ==
  /\ j \in 1..Len(jobs)
  /\ toHost' = Append(toHost, Post("screenshotCaptured", jobs[j].bannerId, jobs[j].req))
  /\ jobs' = Without(jobs, j)
  /\ UNCHANGED <<calls, toAgent>>
  /\ UNCHANGED notCapture

\* html2canvas rejects: screenshotFailed is posted to the parent.
JobReject(j) ==
  /\ j \in 1..Len(jobs)
  /\ toHost' = Append(toHost, Post("screenshotFailed", jobs[j].bannerId, jobs[j].req))
  /\ jobs' = Without(jobs, j)
  /\ UNCHANGED <<calls, toAgent>>
  /\ UNCHANGED notCapture

\* handleMessage without removeEventListener and clearTimeout.
handleMessage_keepListener(c, m) ==
  IF ~c.listening \/ m.bannerId # c.bannerId THEN c
  ELSE IF m.action = "screenshotCaptured"
  THEN [c EXCEPT !.state = "resolved", !.by = m.req]
  ELSE IF m.action = "screenshotFailed"
  THEN [c EXCEPT !.state = "rejected", !.error = "failed", !.by = m.req]
  ELSE c

\* handleMessage of one invocation, for the message m.
handleMessage(c, m) ==
  IF ~c.listening \/ m.bannerId # c.bannerId THEN c
  ELSE IF m.action = "screenshotCaptured"
  THEN [c EXCEPT !.state = "resolved", !.by = m.req,
                 !.listening = FALSE, !.timeoutId = "cleared"]
  ELSE IF m.action = "screenshotFailed"
  THEN [c EXCEPT !.state = "rejected", !.error = "failed", !.by = m.req,
                 !.listening = FALSE, !.timeoutId = "cleared"]
  ELSE c

\* The host window dispatches a message event: every registered
\* handleMessage runs.
HostMessage ==
  /\ toHost # << >>
  /\ calls' = [i \in 1..Len(calls) |-> handleMessage(calls[i], Head(toHost))]
  /\ toHost' = Tail(toHost)
  /\ UNCHANGED <<toAgent, jobs>>
  /\ UNCHANGED notCapture

\* The timer callback without its reject.
Timeout_noReject(i) ==
  /\ i \in 1..Len(calls)
  /\ calls[i].timeoutId = "armed"
  /\ calls' = [calls EXCEPT ![i] = [@ EXCEPT !.listening = FALSE, !.timeoutId = "fired"]]
  /\ UNCHANGED <<toAgent, jobs, toHost>>
  /\ UNCHANGED notCapture

\* The callback of setTimeout(..., 10000) of invocation i.
Timeout(i) ==
  /\ i \in 1..Len(calls)
  /\ calls[i].timeoutId = "armed"
  /\ calls' = [calls EXCEPT ![i] = [@ EXCEPT !.state = "rejected", !.error = "timeout",
                                          !.listening = FALSE, !.timeoutId = "fired"]]
  /\ UNCHANGED <<toAgent, jobs, toHost>>
  /\ UNCHANGED notCapture

NextCapture ==
  \/ \E b \in Previews, hasIframe \in BOOLEAN : getBannerDataUri(b, hasIframe)
  \/ \E i \in 1..Len(toAgent) : AgentCapture(i)
  \/ \E i \in 1..Len(toAgent) : AgentSilent(i)
  \/ \E j \in 1..Len(jobs) : JobResolve(j)
  \/ \E j \in 1..Len(jobs) : JobReject(j)
  \/ HostMessage
  \/ \E i \in 1..Len(calls) : Timeout(i)

\* No capture has been asked for.
CaptureStart ==
  /\ calls = << >>
  /\ toAgent = << >>
  /\ jobs = << >>
  /\ toHost = << >>

\* ------------------------------------------------------------------------
\* Claims about the delegated capture
\* ------------------------------------------------------------------------
Pending(i) == i <= Len(calls) /\ calls[i].state = "pending"

\* C7: a delegated capture that gets no screenshotCaptured and no
\* screenshotFailed for its banner id is eventually rejected with the timeout
\* error; it does not stay pending.
C7_CaptureTimesOut ==
  /\ \A i \in 1..MaxCalls :
       Pending(i) ~> (i <= Len(calls) /\ (calls[i].by # 0 \/ calls[i].error = "timeout"))
  /\ [](\A i \in 1..Len(calls) :
          (calls[i].state # "pending" /\ calls[i].by = 0 /\ calls[i].error # "noIframe")
            => (calls[i].state = "rejected" /\ calls[i].error = "timeout"))

\* C7's case: the creative never answered and the invocation was rejected
\* with the timeout error.
C7_Witness ==
  \E i \in 1..Len(calls) :
    /\ calls[i].state = "rejected" /\ calls[i].error = "timeout" /\ calls[i].by = 0
    /\ \A k \in 1..Len(toAgent) : toAgent[k].req # i
    /\ \A k \in 1..Len(jobs) : jobs[k].req # i
    /\ \A k \in 1..Len(toHost) : toHost[k].req # i

\* C8: an invocation is settled only by the response to its own request or by
\* its own timeout, also when two captures of the same creative overlap.
C8_OwnResponseOnly ==
  \A i \in 1..Len(calls) : calls[i].by \in {0, i}

\* The invocation sent its command and its promise has settled.
Settled(c) == c.state # "pending" /\ c.error # "noIframe"

\* The promise of c settles in this step, as d, on the message event or the
\* timer expiry the step handles.
SettlesAs(c, d) ==
  \/ /\ d.state = "resolved"
     /\ toHost # << >>
     /\ Head(toHost).action = "screenshotCaptured"
     /\ Head(toHost).bannerId = c.bannerId
  \/ /\ d.state = "rejected" /\ d.error = "failed"
     /\ toHost # << >>
     /\ Head(toHost).action = "screenshotFailed"
     /\ Head(toHost).bannerId = c.bannerId
  \/ /\ d.state = "rejected" /\ d.error = "timeout"
     /\ c.timeoutId = "armed"
     /\ UNCHANGED toHost

\* C23: a delegated capture settles on a screenshotCaptured message for its
\* banner id (resolved), on a screenshotFailed message for its banner id
\* (rejected with that error) or on its timeout (rejected with the timeout
\* error) and on nothing else; once settled its listener is removed, its
\* timer is not armed, and no later step changes it.
C23_SettlesOnce ==
  /\ [](\A i \in 1..Len(calls) :
          Settled(calls[i]) => (~calls[i].listening /\ calls[i].timeoutId # "armed"))
  /\ [][\A i \in 1..Len(calls) :
          /\ Settled(calls[i]) => calls'[i] = calls[i]
          /\ (calls[i].state = "pending" /\ calls'[i].state # "pending")
               => SettlesAs(calls[i], calls'[i])]_vars

\* C23's case: an invocation has settled on a message and another message
\* for its banner id is about to be dispatched in the host window.
C23_Witness ==
  \E i \in 1..Len(calls) :
    /\ Settled(calls[i]) /\ calls[i].by # 0
    /\ toHost # << >>
    /\ Head(toHost).bannerId = calls[i].bannerId

\* ------------------------------------------------------------------------
\* Entry discovery: findHtmlFile(dir)
\* ------------------------------------------------------------------------
MaxEntries == 2         \* entries of the root listing
MaxSubEntries == 2      \* entries of a subdirectory's listing

FileNames == {"index.html", "ad.html", "ad.htm", "app.js"}
DirNames == {"assets", "v2.html"}
SubFileNames == {"index.html", "ad.htm", "app.js"}
SubDirNames == {"old.html"}      \* a directory one level further down

\* A Dirent, with the listing of the directory it names (<< >> for a file).
Dirent(name, isFile, sub) == [name |-> name, isFile |-> isFile, sub |-> sub]

\* Listings of at most n of the entries of S, no name twice (readdir order is
\* the file system's).
Listings(S, n) ==
  UNION { { l \in [1..k -> S] : \A i, j \in 1..k : i # j => l[i].name # l[j].name }
          : k \in 0..n }

SubListings ==
  Listings({ Dirent(f, TRUE, << >>) : f \in SubFileNames }
             \cup { Dirent(d, FALSE, << >>) : d \in SubDirNames }, MaxSubEntries)
RootListings ==
  Listings({ Dirent(f, TRUE, << >>) : f \in FileNames }
             \cup { Dirent(d, FALSE, l) : d \in DirNames, l \in SubListings }, MaxEntries)

\* String.prototype.endsWith, and /\.html?$/.test(name)
endsWith(s, suffix) ==
  Len(s) >= Len(suffix) /\ SubSeq(s, Len(s) - Len(suffix) + 1, Len(s)) = suffix
isHtmlName(name) == endsWith(name, ".html") \/ endsWith(name, ".htm")

RECURSIVE find(_, _, _)
\* Array.prototype.find from position i: the first position of es whose entry
\* is a file with a name in the set names, 0 if there is none.
find(es, names, i) ==
  IF i > Len(es) THEN 0
  ELSE IF es[i].isFile /\ es[i].name \in names THEN i
  ELSE find(es, names, i + 1)

\* The names /\.html?$/ accepts among those of a listing.
htmlNames(es) == { es[i].name : i \in { j \in 1..Len(es) : isHtmlName(es[j].name) } }

RECURSIVE subdirectories(_, _)
\* for (const entry of entries), from position i.
subdirectories(es, i) ==
  IF i > Len(es) THEN Null
  ELSE IF ~es[i].isFile
  THEN LET subEntries == es[i].sub
           htmlInSubDir == find(subEntries, htmlNames(subEntries), 1)
       IN IF htmlInSubDir # 0
          THEN es[i].name \o "/" \o subEntries[htmlInSubDir].name
          ELSE subdirectories(es, i + 1)
  ELSE subdirectories(es, i + 1)

\* findHtmlFile without its first step.
findHtmlFile_noIndexFirst(es) ==
  LET anyHtmlFile == find(es, htmlNames(es), 1)
  IN IF anyHtmlFile # 0 THEN es[anyHtmlFile].name
     ELSE subdirectories(es, 1)

\* async function findHtmlFile(dir), for the listing es of dir.
findHtmlFile(es) ==
  LET indexFile == find(es, {"index.html"}, 1)
      anyHtmlFile == find(es, htmlNames(es), 1)
  IN IF indexFile # 0 THEN es[indexFile].name
     ELSE IF anyHtmlFile # 0 THEN es[anyHtmlFile].name
     ELSE subdirectories(es, 1)

NotRun == "not run"

\* The upload handler looks for the entry document.
FindHtmlFile ==
  /\ htmlFile = NotRun
  /\ htmlFile' = findHtmlFile(entries)
  /\ UNCHANGED entries
  /\ UNCHANGED notFind

NextFind == FindHtmlFile

\* ------------------------------------------------------------------------
\* Claims about entry discovery
\* ------------------------------------------------------------------------
Least(S) == CHOOSE i \in S : \A j \in S : i <= j
HtmlFilesOf(es) == { i \in 1..Len(es) : es[i].isFile /\ isHtmlName(es[i].name) }
RootIndex == \E i \in 1..Len(entries) : entries[i].isFile /\ entries[i].name = "index.html"
DirsWithHtml == { i \in 1..Len(entries) : ~entries[i].isFile /\ HtmlFilesOf(entries[i].sub) # {} }

\* C9: the entry document is the root file named index.html; otherwise the
\* first root file with an HTML extension; otherwise the first HTML file of
\* the first subdirectory that has one (one level deep); otherwise nothing.
C9_EntryPrecedence ==
  htmlFile # NotRun =>
    htmlFile =
      IF RootIndex THEN "index.html"
      ELSE IF HtmlFilesOf(entries) # {} THEN entries[Least(HtmlFilesOf(entries))].name
      ELSE IF DirsWithHtml # {}
      THEN LET d == entries[Least(DirsWithHtml)]
           IN d.name \o "/" \o d.sub[Least(HtmlFilesOf(d.sub))].name
      ELSE Null

\* C9's case: a subdirectory with an HTML file is listed before the root
\* index.html, and the root file is chosen.
C9_Witness ==
  /\ htmlFile = "index.html"
  /\ DirsWithHtml # {}
  /\ \E i \in 1..Len(entries) :
       /\ entries[i].isFile /\ entries[i].name = "index.html"
       /\ Least(DirsWithHtml) < i

\* ------------------------------------------------------------------------
\* Dimension detection: getAdSize(htmlPath)
\* ------------------------------------------------------------------------
MaxTokens == 4          \* tokens of the entry document

\* The document is a sequence of tokens: start tags with their attributes in
\* source order, and line breaks.
Attr(n, v) == [n |-> n, v |-> v]
Tag(tag, attrs) == [tag |-> tag, attrs |-> attrs]
LineBreak == Tag("newline", << >>)

Tokens ==
  { Tag("meta", <<Attr("name", "ad.size"), Attr("content", "width=300,height=250")>>),
    Tag("meta", <<Attr("name", "ad.size"), Attr("content", "width=728, height=90")>>),
    Tag("meta", <<Attr("name", "ad-size"), Attr("content", "width=160,height=600")>>),
    Tag("meta", <<Attr("name", "authoring_tool"), Attr("content", "Adobe_Animate_CC")>>),
    Tag("canvas", <<Attr("id", "canvas"), Attr("width", "300"), Attr("height", "250")>>),
    Tag("canvas", <<Attr("width", "728"), Attr("height", "90")>>),
    Tag("canvas", <<Attr("height", "90"), Attr("width", "728")>>),
    Tag("canvas", <<Attr("id", "canvas")>>),
    Tag("img", <<Attr("width", "120"), Attr("height", "60")>>),
    LineBreak }
Documents == UNION { [1..n -> Tokens] : n \in 0..MaxTokens }

\* The strings \d+ accepts among the attribute values in use, and parseInt.
Numbers == {"300", "250", "728", "90", "160", "600", "120", "60"}
parseInt(s) ==
  CASE s = "300" -> 300 [] s = "250" -> 250 [] s = "728" -> 728 [] s = "90" -> 90
    [] s = "160" -> 160 [] s = "600" -> 600 [] s = "120" -> 120 [] s = "60" -> 60

\* What getAdSize returns: { width, height } or null.
Size(width, height) == [kind |-> "size", width |-> width, height |-> height]
NullSize == [kind |-> "null", width |-> 0, height |-> 0]
NotMeasured == [kind |-> "not run", width |-> 0, height |-> 0]

\* ["']ad.size["'] : the dot accepts any character.
matchesAdSizeName(v) == Len(v) = 7 /\ SubSeq(v, 1, 2) = "ad" /\ SubSeq(v, 4, 7) = "size"

\* width=(\d+),\s*height=(\d+) as the whole value: the two groups, or << >>.
sizeGroups(v) ==
  LET gs == { g \in Numbers \X Numbers :
                \E sp \in {"", " "} :
                  v = "width=" \o g[1] \o "," \o sp \o "height=" \o g[2] }
  IN IF gs = {} THEN << >> ELSE CHOOSE g \in gs : TRUE

\* The first regular expression matched at one tag: a meta tag with exactly
\* the attributes name and content, in this order.
isMetaMatch(t) ==
  /\ t.tag = "meta"
  /\ Len(t.attrs) = 2
  /\ t.attrs[1].n = "name" /\ matchesAdSizeName(t.attrs[1].v)
  /\ t.attrs[2].n = "content" /\ sizeGroups(t.attrs[2].v) # << >>

\* htmlContent.match of the first regular expression: its groups, or << >>.
metaMatch(doc) ==
  LET S == { i \in 1..Len(doc) : isMetaMatch(doc[i]) }
  IN IF S = {} THEN << >>
     ELSE sizeGroups(doc[CHOOSE i \in S : \A j \in S : i <= j].attrs[2].v)

\* The test of the authoring-tool regular expression.
isAdobeAnimate(doc) ==
  \E i \in 1..Len(doc) :
    /\ doc[i].tag = "meta"
    /\ Len(doc[i].attrs) >= 2
    /\ doc[i].attrs[1] = Attr("name", "authoring_tool")
    /\ doc[i].attrs[2] = Attr("content", "Adobe_Animate_CC")

\* The position after the last token of the line of token c.
lineEnd(doc, c) ==
  LET S == { i \in (c + 1)..Len(doc) : doc[i] = LineBreak }
  IN IF S = {} THEN Len(doc) + 1 ELSE CHOOSE i \in S : \A j \in S : i <= j

\* width=["'](\d+)["']\s+height=["'](\d+)["'] : the places <<token, attribute>>
\* on the rest of the line of token c where a width attribute is followed by
\* a height attribute, both numbers.
pairsAfter(doc, c) ==
  { p \in (c..(lineEnd(doc, c) - 1)) \X (1..3) :
      /\ p[2] + 1 <= Len(doc[p[1]].attrs)
      /\ doc[p[1]].attrs[p[2]].n = "width" /\ doc[p[1]].attrs[p[2]].v \in Numbers
      /\ doc[p[1]].attrs[p[2] + 1].n = "height" /\ doc[p[1]].attrs[p[2] + 1].v \in Numbers }

\* htmlContent.match of the canvas regular expression: the match starts at
\* the first "<canvas " from which the lazy .*? reaches such a pair without
\* crossing a line break, and its groups are those of the first such pair.
canvasMatch(doc) ==
  LET S == { c \in 1..Len(doc) :
               doc[c].tag = "canvas" /\ doc[c].attrs # << >> /\ pairsAfter(doc, c) # {} }
  IN IF S = {} THEN << >>
     ELSE LET c == CHOOSE i \in S : \A j \in S : i <= j
              P == pairsAfter(doc, c)
              p == CHOOSE q \in P : \A r \in P : q[1] < r[1] \/ (q[1] = r[1] /\ q[2] <= r[2])
          IN <<doc[p[1]].attrs[p[2]].v, doc[p[1]].attrs[p[2] + 1].v>>

\* async function getAdSize(htmlPath), for the content doc of the file.
getAdSize(doc) ==
  LET m == metaMatch(doc)
  IN IF m # << >>
     THEN Size(parseInt(m[1]), parseInt(m[2]))
     ELSE IF isAdobeAnimate(doc)
     THEN LET c == canvasMatch(doc)
          IN IF c # << >> THEN Size(parseInt(c[1]), parseInt(c[2])) ELSE NullSize
     ELSE NullSize

\* The upload handler measures the entry document.
GetAdSize ==
  /\ adSize = NotMeasured
  /\ adSize' = getAdSize(htmlContent)
  /\ UNCHANGED htmlContent
  /\ UNCHANGED notSize

NextSize == GetAdSize

\* ------------------------------------------------------------------------
\* Claims about dimension detection
\* ------------------------------------------------------------------------
\* The value of the attribute n of a tag ("" if it has none).
AttrValue(t, n) ==
  LET S == { k \in 1..Len(t.attrs) : t.attrs[k].n = n }
  IN IF S = {} THEN "" ELSE t.attrs[CHOOSE k \in S : \A j \in S : k <= j].v

\* An ad.size meta tag: <meta name="ad.size" content="width=W,height=H">.
IsAdSizeMeta(t) ==
  /\ t.tag = "meta"
  /\ AttrValue(t, "name") = "ad.size"
  /\ sizeGroups(AttrValue(t, "content")) # << >>
AdSizeMetas == { i \in 1..Len(htmlContent) : IsAdSizeMeta(htmlContent[i]) }
Canvases == { i \in 1..Len(htmlContent) : htmlContent[i].tag = "canvas" }
FirstOf(S) == CHOOSE i \in S : \A j \in S : i <= j

\* C10: the size of the ad.size meta tag whenever there is one; else, with
\* the authoring-tool signature, the width and height attributes of the first
\* canvas element; else no dimensions.
C10_SizePrecedence ==
  adSize # NotMeasured =>
    adSize =
      IF AdSizeMetas # {}
      THEN LET g == sizeGroups(AttrValue(htmlContent[FirstOf(AdSizeMetas)], "content"))
           IN Size(parseInt(g[1]), parseInt(g[2]))
      ELSE IF isAdobeAnimate(htmlContent) /\ Canvases # {}
      THEN LET c == htmlContent[FirstOf(Canvases)]
           IN IF AttrValue(c, "width") \in Numbers /\ AttrValue(c, "height") \in Numbers
              THEN Size(parseInt(AttrValue(c, "width")), parseInt(AttrValue(c, "height")))
              ELSE NullSize
      ELSE NullSize

\* ------------------------------------------------------------------------
\* Ingestion: POST /api/preview/upload and injectScreenshotScript
\* ------------------------------------------------------------------------
MaxIngestTokens == 3    \* tokens of an uploaded entry document

\* The closing head marker as the code looks for it, the same tag in capitals,
\* and the control agent templated with a banner id and a group id.
HeadClose == Tag("/head", << >>)
HeadCloseCapitals == Tag("/HEAD", << >>)
AgentScript(bannerId, groupId) ==
  Tag("script", <<Attr("%%BANNER_ID%%", bannerId), Attr("%%GROUP_ID%%", groupId)>>)

IngestTokens ==
  { Tag("meta", <<Attr("name", "ad.size"), Attr("content", "width=300,height=250")>>),
    Tag("meta", <<Attr("name", "ad-size"), Attr("content", "width=160,height=600")>>),
    Tag("meta", <<Attr("name", "authoring_tool"), Attr("content", "Adobe_Animate_CC")>>),
    Tag("canvas", <<Attr("width", "728"), Attr("height", "90")>>),
    Tag("canvas", <<Attr("id", "canvas")>>),
    Tag("img", <<Attr("width", "120"), Attr("height", "60")>>),
    HeadClose,
    HeadCloseCapitals }
IngestDocuments == UNION { [1..n -> IngestTokens] : n \in 0..MaxIngestTokens }

\* The listings of the bundles uploaded: no file, no HTML file, a root
\* index.html, another root HTML file, an HTML file one level down.
IngestListings ==
  { << >>,
    << Dirent("app.js", TRUE, << >>) >>,
    << Dirent("index.html", TRUE, << >>) >>,
    << Dirent("app.js", TRUE, << >>), Dirent("ad.htm", TRUE, << >>) >>,
    << Dirent("assets", FALSE, << Dirent("index.html", TRUE, << >>) >>) >> }

\* formData.get('file'): a zip with its listing and the content of its HTML
\* file, bytes AdmZip cannot read, or no file.
ZipFile(name, readable, listing, doc) ==
  [name |-> name, readable |-> readable, listing |-> listing, doc |-> doc]
NoFile == ZipFile("", FALSE, << >>, << >>)
UploadFiles ==
  { NoFile, ZipFile("broken.zip", FALSE, << >>, << >>) }
    \cup { ZipFile("ad.zip", TRUE, l, d) : l \in IngestListings, d \in IngestDocuments }
FormData(file, groupId) == [file |-> file, groupId |-> groupId]

\* NextResponse.json(body, { status }); id is "" in the build that does not
\* return it.
Reply(status, error, url, width, height, id) ==
  [status |-> status, error |-> error, url |-> url,
   width |-> width, height |-> height, id |-> id]
ErrorReply(status, error) == Reply(status, error, "", 0, 0, "")
NoReply == Reply(0, "", "", 0, 0, "")

\* The temporary directory of an upload: whether the bundle was extracted,
\* and the content of its entry document.
Disk(extracted, content) == [extracted |-> extracted, content |-> content]
NoDisk == Disk(FALSE, << >>)

RECURSIVE indexOf(_, _, _)
\* String.prototype.indexOf at token level: the first position from i of the
\* token t in doc, 0 if there is none.
indexOf(doc, t, i) ==
  IF i > Len(doc) THEN 0
  ELSE IF doc[i] = t THEN i
  ELSE indexOf(doc, t, i + 1)

\* injectScreenshotScript(htmlPath, bannerId, groupId): the content written
\* back; replace() with a string pattern replaces the first occurrence.
injectScreenshotScript(doc, bannerId, groupId) ==
  LET i == indexOf(doc, HeadClose, 1)
  IN IF i = 0 THEN doc
     ELSE SubSeq(doc, 1, i - 1) \o <<AgentScript(bannerId, groupId)>>
            \o SubSeq(doc, i, Len(doc))

\* POST without the dimensions check.
POST_noDimensionsCheck(fd, bannerId, returnsId) ==
  IF fd.file = NoFile \/ fd.groupId = ""
  THEN [reply |-> ErrorReply(400, "Missing file or group ID"), disk |-> NoDisk]
  ELSE IF ~fd.file.readable
  THEN [reply |-> ErrorReply(500, "Failed to process zip file"), disk |-> NoDisk]
  ELSE LET entryFile == findHtmlFile(fd.file.listing)
           dimensions == getAdSize(fd.file.doc)
       IN IF entryFile = Null
          THEN [reply |-> ErrorReply(400, "No HTML file found in the zip archive"),
                disk |-> Disk(TRUE, << >>)]
          ELSE [reply |-> Reply(200, "", "/api/preview/" \o bannerId \o "/" \o entryFile,
                                dimensions.width, dimensions.height,
                                IF returnsId THEN bannerId ELSE ""),
                disk |-> Disk(TRUE, injectScreenshotScript(fd.file.doc, bannerId,
                                                           fd.groupId))]

\* export async function POST(req), for the form data fd and the uuid drawn
\* as bannerId: the response and what the temporary directory holds.
POST(fd, bannerId, returnsId) ==
  IF fd.file = NoFile \/ fd.groupId = ""
  THEN [reply |-> ErrorReply(400, "Missing file or group ID"), disk |-> NoDisk]
  ELSE IF ~fd.file.readable
  THEN [reply |-> ErrorReply(500, "Failed to process zip file"), disk |-> NoDisk]
  ELSE LET entryFile == findHtmlFile(fd.file.listing)
           dimensions == getAdSize(fd.file.doc)
       IN IF entryFile = Null
          THEN [reply |-> ErrorReply(400, "No HTML file found in the zip archive"),
                disk |-> Disk(TRUE, << >>)]
          ELSE IF dimensions = NullSize
          THEN [reply |-> ErrorReply(400, "Could not determine banner dimensions"),
                disk |-> Disk(TRUE, fd.file.doc)]
          ELSE [reply |-> Reply(200, "", "/api/preview/" \o bannerId \o "/" \o entryFile,
                                dimensions.width, dimensions.height,
                                IF returnsId THEN bannerId ELSE ""),
                disk |-> Disk(TRUE, injectScreenshotScript(fd.file.doc, bannerId,
                                                           fd.groupId))]

\* The id uuidv4() gives the upload.
UploadId == "U1"

\* The endpoint handles the upload; returnsId tells the two builds of the
\* route apart.
Upload(returnsId) ==
  /\ reply = NoReply
  /\ LET r == POST(request, UploadId, returnsId) IN
       /\ reply' = r.reply
       /\ disk' = r.disk
  /\ UNCHANGED request
  /\ UNCHANGED notIngest

NextIngest == \E returnsId \in BOOLEAN : Upload(returnsId)

\* ------------------------------------------------------------------------
\* Claims about ingestion
\* ------------------------------------------------------------------------
\* The ways an ingestion fails.
MissingField == request.file = NoFile \/ request.groupId = ""
Malformed == ~MissingField /\ ~request.file.readable
HasHtml(l) == \E i \in 1..Len(l) : l[i].isFile /\ isHtmlName(l[i].name)
NoEntryDocument ==
  /\ ~MissingField /\ request.file.readable
  /\ ~HasHtml(request.file.listing)
  /\ \A i \in 1..Len(request.file.listing) :
       request.file.listing[i].isFile \/ ~HasHtml(request.file.listing[i].sub)
DimensionsUndetectable ==
  /\ ~MissingField /\ request.file.readable /\ ~NoEntryDocument
  /\ getAdSize(request.file.doc) = NullSize
IngestionFails == MissingField \/ Malformed \/ NoEntryDocument \/ DimensionsUndetectable
NoSuccessBody ==
  reply.url = "" /\ reply.width = 0 /\ reply.height = 0 /\ reply.id = ""

\* C13 as stated: every failed ingestion (missing field, no entry document,
\* undetectable dimensions, bundle that cannot be unpacked) is answered 4xx
\* with an error and never with a success body.
C13_FailureIs4xx ==
  (reply # NoReply /\ IngestionFails) =>
    (reply.status \in 400..499 /\ reply.error # "" /\ NoSuccessBody)

\* C13 as amended: a missing field, a bundle without entry document and
\* undetectable dimensions are answered 400 with the error of that step, a
\* bundle that cannot be unpacked is answered 500 with an error; none of them
\* gets a success body, and an ingestion that does not fail is answered 200.
C13_FailureIsError ==
  reply # NoReply =>
    /\ MissingField => reply = ErrorReply(400, "Missing file or group ID")
    /\ Malformed => reply = ErrorReply(500, "Failed to process zip file")
    /\ NoEntryDocument => reply = ErrorReply(400, "No HTML file found in the zip archive")
    /\ DimensionsUndetectable =>
         reply = ErrorReply(400, "Could not determine banner dimensions")
    /\ IngestionFails => NoSuccessBody
    /\ ~IngestionFails => (reply.status = 200 /\ reply.error = "")

\* C13's case: a bundle that cannot be unpacked, sent with a group id, has
\* been answered.
C13_Witness ==
  /\ Malformed
  /\ reply # NoReply
  /\ reply.status = 500

\* The copies of the control agent in a document.
AgentCopies(doc) == { i \in 1..Len(doc) : doc[i].tag = "script" }

\* C16: after a successful ingestion the stored entry document holds exactly
\* one copy of the control agent, templated with the upload's creativeId and
\* groupId, immediately before the closing head marker, and is otherwise the
\* uploaded document.
C16_OneAgentBeforeHead ==
  reply.status = 200 =>
    \E i \in 1..Len(disk.content) :
      /\ AgentCopies(disk.content) = {i}
      /\ disk.content[i] = AgentScript(UploadId, request.groupId)
      /\ i < Len(disk.content) /\ disk.content[i + 1].tag \in {"/head", "/HEAD"}
      /\ SubSeq(disk.content, 1, i - 1) \o SubSeq(disk.content, i + 1, Len(disk.content))
           = request.file.doc

\* ------------------------------------------------------------------------
\* Bundle upload on the host: HTML5UploadPanel.processFiles
\* ------------------------------------------------------------------------
MaxFiles == 2           \* files of one batch

\* The files an operator drops: a good bundle, a bundle whose entry document
\* has no size (its upload fails), one whose canvas has no size next to an
\* image that has one, and an image.
BatchFiles ==
  { ZipFile("a.zip", TRUE, << Dirent("index.html", TRUE, << >>) >>,
            << Tag("meta", <<Attr("name", "ad.size"),
                             Attr("content", "width=300,height=250")>>), HeadClose >>),
    ZipFile("b.zip", TRUE, << Dirent("index.html", TRUE, << >>) >>, << HeadClose >>),
    ZipFile("c.zip", TRUE, << Dirent("index.html", TRUE, << >>) >>,
            << Tag("meta", <<Attr("name", "authoring_tool"),
                             Attr("content", "Adobe_Animate_CC")>>),
               HeadClose,
               Tag("canvas", <<Attr("id", "canvas")>>),
               Tag("img", <<Attr("width", "120"), Attr("height", "60")>>) >>),
    ZipFile("e.png", FALSE, << >>, << >>) }
Batches == UNION { [1..n -> BatchFiles] : n \in 1..MaxFiles }

\* file.type !== "application/zip" && !file.name.endsWith('.zip') is false
isZip(file) == endsWith(file.name, ".zip")

\* What became of one file of the batch: "none" (not started), "skipped",
\* "waiting" (fetch in flight), "failed" or "pushed", with the response and
\* the upload's directory on the server.
Outcome(state, r, d) == [state |-> state, reply |-> r, disk |-> d]

\* processFiles(files) up to its first await; proceed is the answer to
\* window.confirm.
ProcessFiles(fs, proceed) ==
  /\ phase # "uploading"
  /\ Len(banners) + Len(fs) <= MaxBanners
  /\ nextUuid + 1 + Len(fs) <= MaxUuid
  /\ LET alreadyHasGroup == \E i \in 1..Len(banners) : banners[i].groupId # 0 IN
       /\ alreadyHasGroup \/ proceed
       /\ files' = fs
       /\ newBanners' = << >>
       /\ IF alreadyHasGroup /\ ~proceed
          THEN /\ phase' = "declined"
               /\ outcome' = [i \in 1..Len(fs) |-> Outcome("none", NoReply, NoDisk)]
               /\ UNCHANGED <<batchGroup, nextUuid>>
          ELSE /\ phase' = "uploading"
               /\ batchGroup' = nextUuid + 1
               /\ nextUuid' = nextUuid + 1
               /\ outcome' = [i \in 1..Len(fs) |->
                                Outcome(IF isZip(fs[i]) THEN "waiting" ELSE "skipped",
                                        NoReply, NoDisk)]
  /\ UNCHANGED <<served, banners, presets, selectedBannerIds, readyBanners,
                 isGroupPlaying, posted, hostOp>>
  /\ UNCHANGED notUploadNorHost

\* The rest of the map callback without its try/catch: a failed upload
\* rejects Promise.all and the batch is lost.
FetchDone_failFast(i, returnsId) ==
  /\ i \in 1..Len(outcome)
  /\ outcome[i].state = "waiting"
  /\ LET r == POST(FormData(files[i], "G" \o ToString(batchGroup)),
                   "U" \o ToString(served + 1), returnsId) IN
       IF r.reply.status \in 200..299
       THEN /\ newBanners' = Append(newBanners,
                                    Banner(0, r.reply.url, batchGroup, 0))
            /\ outcome' = [outcome EXCEPT ![i] = Outcome("pushed", r.reply, r.disk)]
       ELSE /\ newBanners' = << >>
            /\ outcome' = [j \in 1..Len(outcome) |->
                             IF j = i THEN Outcome("failed", r.reply, r.disk)
                             ELSE IF outcome[j].state = "waiting"
                             THEN Outcome("failed", NoReply, NoDisk)
                             ELSE outcome[j]]
  /\ served' = served + 1
  /\ UNCHANGED <<files, batchGroup, phase>>
  /\ UNCHANGED hostVars
  /\ UNCHANGED notUploadNorHost

\* The rest of the map callback for file i: the fetch completes, the response
\* is read and the creative is pushed, or the error is caught and shown.
FetchDone(i, returnsId) ==
  /\ i \in 1..Len(outcome)
  /\ outcome[i].state = "waiting"
  /\ LET r == POST(FormData(files[i], "G" \o ToString(batchGroup)),
                   "U" \o ToString(served + 1), returnsId) IN
       IF r.reply.status \in 200..299
       THEN /\ newBanners' = Append(newBanners,
                                    Banner(0, r.reply.url, batchGroup, 0))
            /\ outcome' = [outcome EXCEPT ![i] = Outcome("pushed", r.reply, r.disk)]
       ELSE /\ UNCHANGED newBanners
            /\ outcome' = [outcome EXCEPT ![i] = Outcome("failed", r.reply, r.disk)]
  /\ served' = served + 1
  /\ UNCHANGED <<files, batchGroup, phase>>
  /\ UNCHANGED hostVars
  /\ UNCHANGED notUploadNorHost

\* processFiles after await Promise.all(uploadPromises).
FinishUpload ==
  /\ phase = "uploading"
  /\ \A i \in 1..Len(outcome) : outcome[i].state # "waiting"
  /\ phase' = "done"
  /\ IF newBanners # << >>
     THEN LET r == handleAddBanners(banners, readyBanners, newBanners, nextUuid) IN
            /\ banners' = r.banners
            /\ readyBanners' = r.ready
            /\ nextUuid' = r.drawn
            /\ hostOp' = Op("addBanners", 0, FALSE)
     ELSE UNCHANGED <<banners, readyBanners, nextUuid, hostOp>>
  /\ UNCHANGED <<files, batchGroup, newBanners, outcome, served>>
  /\ UNCHANGED <<presets, selectedBannerIds, isGroupPlaying, posted>>
  /\ UNCHANGED notUploadNorHost

NextUpload ==
  \/ \E fs \in Batches, proceed \in BOOLEAN : ProcessFiles(fs, proceed)
  \/ \E i \in 1..Len(outcome), returnsId \in BOOLEAN : FetchDone(i, returnsId)
  \/ FinishUpload
  \/ AddUrlBanners(1)

\* No batch has been dropped.
UploadStart ==
  /\ files = << >>
  /\ batchGroup = 0
  /\ newBanners = << >>
  /\ outcome = << >>
  /\ phase = "idle"
  /\ served = 0

\* ------------------------------------------------------------------------
\* Claims about the bundle upload
\* ------------------------------------------------------------------------
\* A document carries a dimension signal: an ad.size meta tag, or the
\* authoring-tool signature with a first canvas that has width and height.
FirstCanvasHasSize(doc) ==
  LET S == { i \in 1..Len(doc) : doc[i].tag = "canvas" }
  IN /\ S # {}
     /\ LET c == doc[CHOOSE i \in S : \A j \in S : i <= j]
        IN AttrValue(c, "width") \in Numbers /\ AttrValue(c, "height") \in Numbers
HasSignal(doc) ==
  \/ \E i \in 1..Len(doc) : IsAdSizeMeta(doc[i])
  \/ isAdobeAnimate(doc) /\ FirstCanvasHasSize(doc)

\* The files of the batch whose upload has been answered.
Answered == { i \in 1..Len(outcome) : outcome[i].state \in {"failed", "pushed"} }

\* C11: an upload whose entry document carries neither dimension signal fails
\* with the dimensions error, returns no width or height, leaves the stored
\* document without the agent, and gives the host no creative for that file.
C11_NoSignalNoCreative ==
  \A i \in Answered :
    (files[i].readable /\ findHtmlFile(files[i].listing) # Null /\ ~HasSignal(files[i].doc))
      => /\ outcome[i].reply = ErrorReply(400, "Could not determine banner dimensions")
         /\ outcome[i].disk.content = files[i].doc
         /\ outcome[i].state = "failed"

\* C19: a failed ingestion blocks only its own file: when the batch ends, one
\* creative is appended for every file whose ingestion succeeded, whatever
\* happened to the others, and the creatives already in the registry are
\* unchanged; nothing touches the registry before the batch ends.
C19_FailureBlocksOneFile ==
  /\ [](\A i \in Answered : (outcome[i].state = "pushed") <=> (outcome[i].reply.status = 200))
  /\ [][ FinishUpload =>
           LET ok == { i \in 1..Len(outcome) : outcome[i].reply.status = 200 } IN
             /\ Len(banners') = Len(banners) + Cardinality(ok)
             /\ SubSeq(banners', 1, Len(banners)) = banners
             /\ \A k \in (Len(banners) + 1)..Len(banners') :
                  /\ banners'[k].groupId = batchGroup
                  /\ IsPreview(banners'[k])
                  /\ banners'[k].id \notin Ids(banners)
             /\ readyBanners' = readyBanners ]_vars
  /\ [][ (\E i \in 1..Len(outcome), returnsId \in BOOLEAN : FetchDone(i, returnsId))
           => (banners' = banners /\ readyBanners' = readyBanners
               /\ Len(newBanners') >= Len(newBanners)) ]_vars

\* C19's case: a batch with a failed file and a successful one has ended and
\* the registry, which held a creative before, has the successful one.
C19_Witness ==
  /\ phase = "done"
  /\ \E i, j \in 1..Len(outcome) :
       outcome[i].state = "failed" /\ outcome[j].state = "pushed"
  /\ Len(banners) = 2
  /\ banners[1].groupId = 0
  /\ banners[2].groupId = batchGroup

\* handleAddBanners was called with the creatives given (without ids): they
\* are at the end of the registry in the given order, each with a fresh id,
\* the records before them are as they were, a new creative is in ReadySet
\* exactly when its url is not under /api/preview, and ReadySet is otherwise
\* unchanged.
Added(given) ==
  /\ Len(banners') = Len(banners) + Len(given)
  /\ SubSeq(banners', 1, Len(banners)) = banners
  /\ \A k \in 1..Len(given) :
       LET b == banners'[Len(banners) + k] IN
         /\ [b EXCEPT !.id = 0] = given[k]
         /\ b.id \notin Ids(banners) \cup readyBanners
         /\ \A j \in 1..Len(given) : j # k => banners'[Len(banners) + j].id # b.id
         /\ b.id \in readyBanners' <=> ~startsWith(b.url, "/api/preview")
  /\ readyBanners \subseteq readyBanners'
  /\ readyBanners' \ readyBanners \subseteq Ids(banners') \ Ids(banners)

templatedIds(doc) ==
  { doc[p].attrs[1].v : p \in { q \in 1..Len(doc) : doc[q].tag = "script" } }

\* The id the host registered, as the text put in the bannerId field.
idText(id) == ToString(id)

\* C26: a creative registered from an upload has the id that the upload
\* templated into the agent of the document served at its url.
C26_HostIdIsAgentId ==
  \A i \in 1..Len(banners), k \in 1..Len(outcome) :
    (outcome[k].state = "pushed" /\ outcome[k].reply.url = banners[i].url)
      => \A t \in templatedIds(outcome[k].disk.content) : idText(banners[i].id) = t

\* ------------------------------------------------------------------------
\* The group offered global controls (GlobalControls, findLargestGroupId)
\* ------------------------------------------------------------------------
MaxRegistry == 4
MaxGroups == 2

NotComputed == -1

\* Registries of up to MaxRegistry creatives, each in no group (0) or in one
\* of MaxGroups groups; the ids are distinct.
Registries ==
  UNION { { [i \in 1..n |-> Banner(i, PreviewUrl, g[i], 0)] : g \in [1..n -> 0..MaxGroups] }
          : n \in 0..MaxRegistry }

\* const largestGroupId = useMemo(() => findLargestGroupId(banners), [banners])
Memo ==
  /\ memoLargest = NotComputed
  /\ memoLargest' = findLargestGroupId(propBanners)
  /\ UNCHANGED <<propBanners, notMemo>>

NextMemo == Memo

\* ------------------------------------------------------------------------
\* Claims about the offered group
\* ------------------------------------------------------------------------
GroupsOf(bs) == { bs[i].groupId : i \in 1..Len(bs) } \ {0}
Members(bs, g) == { i \in 1..Len(bs) : bs[i].groupId = g }
FirstMember(bs, g) == CHOOSE i \in Members(bs, g) : \A j \in Members(bs, g) : i <= j
LargestCount(bs) ==
  CHOOSE n \in 1..Len(bs) :
    /\ \E g \in GroupsOf(bs) : Cardinality(Members(bs, g)) = n
    /\ \A g \in GroupsOf(bs) : Cardinality(Members(bs, g)) <= n
LargestGroups(bs) == { g \in GroupsOf(bs) : Cardinality(Members(bs, g)) = LargestCount(bs) }

\* C12: findLargestGroupId returns the group with the most members, among
\* several such groups the one whose first member comes first in the
\* registry, and null when no creative has a groupId.
C12_LargestGroupFirstSeen ==
  memoLargest # NotComputed =>
    IF GroupsOf(propBanners) = {} THEN memoLargest = 0
    ELSE /\ memoLargest \in LargestGroups(propBanners)
         /\ \A g \in LargestGroups(propBanners) :
              FirstMember(propBanners, memoLargest) <= FirstMember(propBanners, g)

\* C12's case: two groups share the largest count, a smaller or ungrouped
\* creative comes first, and the group seen first of the two was returned.
C12_Witness ==
  /\ memoLargest \notin {NotComputed, 0}
  /\ Cardinality(LargestGroups(propBanners)) = 2
  /\ propBanners[1].groupId # memoLargest
  /\ \A g \in LargestGroups(propBanners) \ {memoLargest} :
       FirstMember(propBanners, memoLargest) < FirstMember(propBanners, g)

\* ------------------------------------------------------------------------
\* One creative's card (BannerCard): loading, error and reload
\* ------------------------------------------------------------------------
MaxReloads == 2

\* The load/error/timeout effect has to run: its dependency isLoading differs
\* from the value it last ran with (banner.id and banner.url do not change).
Dep(b) == IF b THEN "true" ELSE "false"
EffectDue == effectLoading # Dep(isLoading)

\* The effect without its setTimeout.
Effect_noTimeout ==
  /\ EffectDue
  /\ effectLoading' = Dep(isLoading)
  /\ isLoading' = IF isDataUrl THEN FALSE ELSE isLoading
  /\ isError' = IF isDataUrl THEN FALSE ELSE isError
  /\ cardTimeoutId' = "none"
  /\ UNCHANGED <<isDataUrl, iframeSrc, iframeLoad, srcTimeouts, doneTimeouts, reloads>>
  /\ UNCHANGED notCard

\* useEffect(..., [banner.id, banner.url, isLoading, isDataUrl]): the cleanup
\* clears the previous timer; a data URL is declared loaded; the new 10 s
\* timer reads the isLoading of this render ("inert": its callback does
\* nothing).  The load and error listeners are attached again.
Effect ==
  /\ EffectDue
  /\ effectLoading' = Dep(isLoading)
  /\ isLoading' = IF isDataUrl THEN FALSE ELSE isLoading
  /\ isError' = IF isDataUrl THEN FALSE ELSE isError
  /\ cardTimeoutId' = IF isLoading /\ ~isDataUrl THEN "armed" ELSE "inert"
  /\ UNCHANGED <<isDataUrl, iframeSrc, iframeLoad, srcTimeouts, doneTimeouts, reloads>>
  /\ UNCHANGED notCard

\* const handleLoad: the iframe's load event.
handleLoad ==
  /\ ~EffectDue
  /\ iframeLoad = "pending"
  /\ iframeLoad' = "loaded"
  /\ isLoading' = FALSE
  /\ isError' = FALSE
  /\ UNCHANGED <<isDataUrl, iframeSrc, cardTimeoutId, srcTimeouts, doneTimeouts, effectLoading,
                 reloads>>
  /\ UNCHANGED notCard

\* const handleError: the iframe's error event.
handleError ==
  /\ ~EffectDue
  /\ iframeLoad = "pending"
  /\ iframeLoad' = "failed"
  /\ isLoading' = FALSE
  /\ isError' = TRUE
  /\ UNCHANGED <<isDataUrl, iframeSrc, cardTimeoutId, srcTimeouts, doneTimeouts, effectLoading,
                 reloads>>
  /\ UNCHANGED notCard

\* The callback of the 10 s timer: handleError(new ErrorEvent('timeout')) when
\* the render that armed it was loading a remote creative.  The iframe's
\* navigation goes on.
LoadTimeout ==
  /\ ~EffectDue
  /\ cardTimeoutId # "none"
  /\ cardTimeoutId' = "none"
  /\ isLoading' = IF cardTimeoutId = "armed" THEN FALSE ELSE isLoading
  /\ isError' = IF cardTimeoutId = "armed" THEN TRUE ELSE isError
  /\ UNCHANGED <<isDataUrl, iframeSrc, iframeLoad, srcTimeouts, doneTimeouts, effectLoading,
                 reloads>>
  /\ UNCHANGED notCard

\* const handleReload (Reload and Try Again buttons).
handleReload ==
  /\ ~EffectDue
  /\ reloads < MaxReloads
  /\ reloads' = reloads + 1
  /\ isLoading' = TRUE
  /\ isError' = FALSE
  /\ iframeSrc' = "about:blank"
  /\ iframeLoad' = "pending"
  /\ srcTimeouts' = srcTimeouts + 1
  /\ UNCHANGED <<isDataUrl, cardTimeoutId, doneTimeouts, effectLoading>>
  /\ UNCHANGED notCard

\* The 100 ms timer of handleReload: the iframe is sent back to banner.url.
SrcTimeout ==
  /\ ~EffectDue
  /\ srcTimeouts > 0
  /\ srcTimeouts' = srcTimeouts - 1
  /\ iframeSrc' = "url"
  /\ iframeLoad' = "pending"
  /\ doneTimeouts' = IF isDataUrl THEN doneTimeouts + 1 ELSE doneTimeouts
  /\ UNCHANGED <<isDataUrl, isLoading, isError, cardTimeoutId, effectLoading, reloads>>
  /\ UNCHANGED notCard

\* setTimeout(() => setIsLoading(false), 100) of the data-URL branch.
DoneTimeout ==
  /\ ~EffectDue
  /\ doneTimeouts > 0
  /\ doneTimeouts' = doneTimeouts - 1
  /\ isLoading' = FALSE
  /\ UNCHANGED <<isDataUrl, isError, iframeSrc, iframeLoad, cardTimeoutId, srcTimeouts,
                 effectLoading, reloads>>
  /\ UNCHANGED notCard

NextCard ==
  \/ Effect
  \/ handleLoad
  \/ handleError
  \/ LoadTimeout
  \/ handleReload
  \/ SrcTimeout
  \/ DoneTimeout

\* ------------------------------------------------------------------------
\* Claims about the card
\* ------------------------------------------------------------------------
Loading == isLoading /\ ~isError
Errored == isError /\ ~isLoading

\* C15: the card leaves Errored only through an explicit reload, and the
\* reload moves it to Loading.
C15_ErroredLeftByReloadOnly ==
  [][ (Errored /\ ~Errored') => (handleReload /\ Loading') ]_vars

\* C24: a card of a creative that is not a data URL leaves Loading only on a
\* load event, on an error event or on the expiry of the 10 s timer, which
\* moves it to Errored; and it does leave Loading, after the initial mount
\* and after every reload, also when no load and no error event arrives.
C24_LoadingTimesOut ==
  /\ (Loading /\ ~isDataUrl) ~> ~Loading
  /\ [][ (Loading /\ ~isDataUrl /\ ~Loading')
          => (handleLoad \/ handleError \/ (LoadTimeout /\ Errored')) ]_vars

\* C24's case: after a reload the iframe's navigation is still pending (no
\* load and no error event) and the timer's expiry has moved the card to
\* Errored.
C24_Witness ==
  /\ ~isDataUrl
  /\ reloads > 0
  /\ iframeLoad = "pending"
  /\ iframeSrc = "url"
  /\ Errored
  /\ cardTimeoutId = "none"

\* ------------------------------------------------------------------------
\* Persisted workspace and presets (lib/workspace.ts, BannerBoard's load effect)
\* ------------------------------------------------------------------------
MaxStored == 1          \* elements of a stored array
MaxSaved == 2           \* operations after the load

\* A JSON value: an array of records ("record") or nulls ("null"), an
\* object that is not an array, a number, a non-empty string, or null.
Json(type, items, number) == [type |-> type, items |-> items, number |-> number]
JsonArray(items) == Json("array", items, 0)
JsonObject == Json("object", << >>, 0)
JsonNumber(n) == Json("number", << >>, n)
JsonString == Json("string", << >>, 0)
JsonNull == Json("null", << >>, 0)
Thrown == Json("SyntaxError", << >>, 0)

JsonArrays ==
  UNION { { JsonArray(a) : a \in [1..n -> {"record", "null"}] } : n \in 0..MaxStored }
JsonValues == JsonArrays \cup {JsonObject, JsonNumber(0), JsonNumber(5), JsonString, JsonNull}

\* What localStorage.getItem returns: null, or a text (the empty string, a
\* text that is not JSON, or the text of a JSON value).
Item(present, empty, json) == [present |-> present, empty |-> empty, json |-> json]
MissingItem == Item(FALSE, FALSE, JsonNull)
EmptyItem == Item(TRUE, TRUE, Thrown)
Items ==
  {MissingItem, EmptyItem} \cup { Item(TRUE, FALSE, v) : v \in JsonValues \cup {Thrown} }

\* JavaScript truthiness of a parsed value.
truthy(v) == ~(v.type = "null" \/ (v.type = "number" /\ v.number = 0))

\* loadWorkspaceFromStorage(): data ? JSON.parse(data) : null, null when
\* JSON.parse throws.
loadWorkspaceFromStorage(data) ==
  IF ~data.present \/ data.empty THEN JsonNull
  ELSE IF data.json = Thrown THEN JsonNull
  ELSE data.json

\* loadPresetsFromStorage(): data ? JSON.parse(data) : [], [] when
\* JSON.parse throws.
loadPresetsFromStorage(data) ==
  IF ~data.present \/ data.empty THEN JsonArray(<< >>)
  ELSE IF data.json = Thrown THEN JsonArray(<< >>)
  ELSE data.json

\* v.map(x => x.id) runs: v is an array and none of its elements is null.
mapsIds(v) == v.type = "array" /\ \A k \in 1..Len(v.items) : v.items[k] = "record"

\* The render of BannerBoard: banners.filter (banner-board.tsx:224) and
\* BannerGrid's banners.map; PresetsPanel evaluates presets.length > 0 ?
\* presets.map(preset => ... preset.id ...): null has no length, a string has
\* a length and no map, an object or a number has neither.
renders(bs, ps) ==
  /\ mapsIds(bs)
  /\ ps.type \notin {"null", "string"}
  /\ ps.type = "array" => mapsIds(ps)

\* The load effect of BannerBoard and the render that follows it.
Mount ==
  /\ boot = "mounting"
  /\ LET savedBanners == loadWorkspaceFromStorage(storedWorkspace)
         loaded == loadPresetsFromStorage(storedPresets)
     IN IF truthy(savedBanners) /\ ~mapsIds(savedBanners)
        THEN \* savedBanners.map throws: the effect ends, nothing is mounted
             /\ boot' = "crashed"
             /\ boardBanners' = savedBanners
             /\ UNCHANGED <<boardPresets, boardReady>>
        ELSE /\ boardBanners' = IF truthy(savedBanners) THEN savedBanners ELSE boardBanners
             /\ boardReady' = IF truthy(savedBanners)
                              THEN 1..Len(savedBanners.items) ELSE boardReady
             /\ boardPresets' = loaded
             /\ boot' = IF renders(boardBanners', loaded) THEN "mounted" ELSE "crashed"
  /\ UNCHANGED <<storedWorkspace, storedPresets>>
  /\ UNCHANGED notStorage

\* handleSavePreset after the load: setPresets(prev => [...prev, newPreset]).
SaveLoaded ==
  /\ boot = "mounted"
  /\ Len(boardPresets.items) < MaxSaved
  /\ IF boardPresets.type = "array"
     THEN boardPresets' = JsonArray(Append(boardPresets.items, "record")) /\ boot' = boot
     ELSE \* the spread of a value that is not iterable throws
          boot' = "crashed" /\ UNCHANGED boardPresets
  /\ UNCHANGED <<storedWorkspace, storedPresets, boardBanners, boardReady>>
  /\ UNCHANGED notStorage

\* handleAddBanners after the load: setBanners(prev => [...prev, ...bannersToAdd]).
AddLoaded ==
  /\ boot = "mounted"
  /\ Len(boardBanners.items) < MaxSaved
  /\ boardBanners' = JsonArray(Append(boardBanners.items, "record"))
  /\ UNCHANGED <<storedWorkspace, storedPresets, boardPresets, boardReady, boot>>
  /\ UNCHANGED notStorage

NextStorage == Mount \/ SaveLoaded \/ AddLoaded

\* ------------------------------------------------------------------------
\* Claims about the persisted workspace
\* ------------------------------------------------------------------------
\* The stored item is a workspace (a preset list): the text of a JSON array
\* of records.
WellFormed(data) ==
  data.present /\ ~data.empty /\ data.json.type = "array" /\ mapsIds(data.json)

\* C17: loading never fails hard: with a missing or corrupt stored workspace
\* the board starts with an empty registry, with missing or corrupt stored
\* presets it starts with an empty preset list, and no operation fails
\* afterwards.
C17_LoadNeverFailsHard ==
  /\ [](boot # "crashed")
  /\ [][ Mount =>
           /\ ~WellFormed(storedWorkspace) =>
                 (boardBanners' = JsonArray(<< >>) /\ boardReady' = {})
           /\ ~WellFormed(storedPresets) => boardPresets' = JsonArray(<< >>) ]_vars

\* ------------------------------------------------------------------------
\* Control agent of route.ts: the message listener and getMasterTimeline
\* ------------------------------------------------------------------------
MaxHandles == 2         \* root timelines the runtime exposes in a run
MaxSteps == 3           \* messages the listener handles in a run

\* One thing the listener did: t is "apply" (a call on a timeline or on a
\* global function), "post" or "shot"; handle is the timeline the call was
\* made on (0: none) and exposed the handle the runtime exposed then.
Step(t, act, handle, exposed) ==
  [t |-> t, act |-> act, handle |-> handle, exposed |-> exposed]

\* function getMasterTimeline(): the handle it returns.
getMasterTimeline_fresh(cached, exposed) == exposed

getMasterTimeline(cached, exposed) == IF cached # 0 THEN cached ELSE exposed

\* The runtime finishes initialising, or replaces its root timeline.
RuntimeExposes ==
  /\ exposedTimeline < MaxHandles
  /\ exposedTimeline' = exposedTimeline + 1
  /\ UNCHANGED <<listenerScript, cachedTimeline, globalPlayPause, steps>>
  /\ UNCHANGED notListener

\* script.onload of route.ts: the message listener is registered.
ListenerOnload ==
  /\ listenerScript = "loading"
  /\ listenerScript' = "loaded"
  /\ UNCHANGED <<exposedTimeline, cachedTimeline, globalPlayPause, steps>>
  /\ UNCHANGED notListener

\* The individual-controls branch for play and pause: the timeline if there
\* is one, else a bare function of the creative (window.play, window.pause
\* or those of window.timeline), else playPauseFailed.
playOrPause(action, mt) ==
  IF mt # 0
  THEN << Step("apply", action, mt, exposedTimeline),
          Step("post", "playPauseSuccess", 0, exposedTimeline) >>
  ELSE IF globalPlayPause
  THEN << Step("apply", action, 0, exposedTimeline),
          Step("post", "playPauseSuccess", 0, exposedTimeline) >>
  ELSE << Step("post", "playPauseFailed", 0, exposedTimeline) >>

\* The message listener of route.ts, for one message.
Listen(m) ==
  /\ listenerScript = "loaded"
  /\ Len(SelectSeq(steps, LAMBDA e : e.t = "recv")) < MaxSteps
  /\ LET mt == getMasterTimeline(cachedTimeline, exposedTimeline)
         own == m.bannerId = Self
         group == m.groupId # Undef /\ m.groupId = SelfGroup
         recv == << Step("recv", m.action, 0, exposedTimeline) >>
         individual ==
           IF ~own THEN << >>
           ELSE IF m.action \in {"captureScreenshot", "captureScreenshotForAI"}
           THEN << Step("shot", m.action, 0, exposedTimeline) >>
           ELSE IF m.action \in {"play", "pause"} THEN playOrPause(m.action, mt)
           ELSE << >>
         global ==
           IF group /\ mt # 0
                    /\ m.action \in {"global-play", "global-pause", "global-restart"}
           THEN << Step("apply", m.action, mt, exposedTimeline) >>
           ELSE << >>
         looked == (own /\ m.action \in {"play", "pause"}) \/ group
     IN IF m.action = Undef
        THEN steps' = steps \o recv /\ UNCHANGED cachedTimeline
        ELSE /\ steps' = steps \o recv \o individual \o global
             /\ cachedTimeline' = IF looked THEN mt ELSE cachedTimeline
  /\ UNCHANGED <<listenerScript, exposedTimeline, globalPlayPause>>
  /\ UNCHANGED notListener

\* The window load listener of route.ts: bannerReady is posted.
ListenerWindowLoad ==
  /\ listenerScript = "loaded"
  /\ \A i \in 1..Len(steps) : steps[i].act # "bannerReady"
  /\ steps' = Append(steps, Step("post", "bannerReady", 0, exposedTimeline))
  /\ UNCHANGED <<listenerScript, exposedTimeline, cachedTimeline, globalPlayPause>>
  /\ UNCHANGED notListener

NextListener ==
  \/ RuntimeExposes
  \/ ListenerOnload
  \/ ListenerWindowLoad
  \/ \E m \in Msgs : Listen(m)

\* ------------------------------------------------------------------------
\* Claims about the listener
\* ------------------------------------------------------------------------
\* C22: every command applied to a timeline is applied to the handle the
\* runtime exposes when the command is handled, never to a handle kept from
\* an earlier lookup.
C22_FreshHandle ==
  \A i \in 1..Len(steps) :
    (steps[i].t = "apply" /\ steps[i].handle # 0) => steps[i].handle = steps[i].exposed

\* ------------------------------------------------------------------------
\* Host orchestrator: removal, selection and reordering (BannerBoard)
\* ------------------------------------------------------------------------
\* handleRemoveSelectedBanners without its setReadyBanners.
handleRemoveSelectedBanners_keepReady ==
  /\ banners' = SelectSeq(banners, LAMBDA b : b.id \notin selectedBannerIds)
  /\ readyBanners' = readyBanners
  /\ selectedBannerIds' = {}
  /\ hostOp' = Op("removeSelected", 0, selectedBannerIds \cap readyBanners # {})
  /\ UNCHANGED <<presets, isGroupPlaying, posted, nextUuid>>
  /\ UNCHANGED notHost

\* handleRemoveSelectedBanners; the history notes whether a removed id was in
\* ReadySet.
handleRemoveSelectedBanners ==
  /\ banners' = SelectSeq(banners, LAMBDA b : b.id \notin selectedBannerIds)
  /\ readyBanners' = readyBanners \ selectedBannerIds
  /\ selectedBannerIds' = {}
  /\ hostOp' = Op("removeSelected", 0, selectedBannerIds \cap readyBanners # {})
  /\ UNCHANGED <<presets, isGroupPlaying, posted, nextUuid>>
  /\ UNCHANGED notHost

\* handleClearBanners
handleClearBanners ==
  /\ banners' = << >>
  /\ selectedBannerIds' = {}
  /\ readyBanners' = {}
  /\ hostOp' = Op("clear", 0, FALSE)
  /\ UNCHANGED <<presets, isGroupPlaying, posted, nextUuid>>
  /\ UNCHANGED notHost

\* handleSelectAll
handleSelectAll ==
  /\ selectedBannerIds' = Ids(banners)
  /\ hostOp' = Op("selectAll", 0, FALSE)
  /\ UNCHANGED <<banners, presets, readyBanners, isGroupPlaying, posted, nextUuid>>
  /\ UNCHANGED notHost

\* handleDeselectAll
handleDeselectAll ==
  /\ selectedBannerIds' = {}
  /\ hostOp' = Op("deselectAll", 0, FALSE)
  /\ UNCHANGED <<banners, presets, readyBanners, isGroupPlaying, posted, nextUuid>>
  /\ UNCHANGED notHost

\* arrayMove(items, oldIndex, newIndex), positions counted from 1.
arrayMove(items, oldIndex, newIndex) ==
  LET rest == Without(items, oldIndex)
  IN SubSeq(rest, 1, newIndex - 1) \o << items[oldIndex] >> \o SubSeq(rest, newIndex, Len(rest))

\* handleDragEnd: the card at oldIndex is dropped on the card at newIndex.
handleDragEnd(oldIndex, newIndex) ==
  /\ oldIndex \in 1..Len(banners)
  /\ newIndex \in 1..Len(banners)
  /\ banners[oldIndex].id # banners[newIndex].id
  /\ banners' = arrayMove(banners, oldIndex, newIndex)
  /\ hostOp' = Op("dragEnd", 0, FALSE)
  /\ UNCHANGED <<presets, selectedBannerIds, readyBanners, isGroupPlaying, posted, nextUuid>>
  /\ UNCHANGED notHost

\* The operations that change the registry, ReadySet and SelectionSet.
NextBoard ==
  \/ \E n \in 1..2 : AddUrlBanners(n)
  \/ \E n \in 1..2 : AddHtml5Banners(n)
  \/ HardReload
  \/ \E id \in Ids(banners) : RemoveBanner(id)
  \/ handleRemoveSelectedBanners
  \/ handleClearBanners
  \/ \E id \in Ids(banners) : ToggleSelection(id)
  \/ handleSelectAll
  \/ handleDeselectAll
  \/ SavePreset
  \/ \E i \in 1..Len(presets) : LoadPreset(i)
  \/ \E i, j \in 1..Len(banners) : handleDragEnd(i, j)

\* The operations on a workspace without presets and reloads: additions,
\* selection, reordering and removal.
NextRemoval ==
  \/ \E n \in 1..2 : AddUrlBanners(n)
  \/ \E n \in 1..2 : AddHtml5Banners(n)
  \/ \E id \in Ids(banners) : RemoveBanner(id)
  \/ handleRemoveSelectedBanners
  \/ handleClearBanners
  \/ \E id \in Ids(banners) : ToggleSelection(id)
  \/ handleSelectAll
  \/ handleDeselectAll
  \/ \E i, j \in 1..Len(banners) : handleDragEnd(i, j)

\* ------------------------------------------------------------------------
\* Claims about removal and about the id sets
\* ------------------------------------------------------------------------
\* The registry bs without the creatives whose id is in gone, the others as
\* they were and in their order.
Kept(bs, gone) == SelectSeq(bs, LAMBDA b : b.id \notin gone)

\* C25: removeSelected removes from the registry exactly the creatives whose
\* id is in SelectionSet, removes those ids from ReadySet and empties
\* SelectionSet; removeCreative(id) removes that creative and takes its id out
\* of ReadySet and SelectionSet; both keep every other creative, its
\* readiness and the order of the remaining creatives.
C25_RemovalFrame ==
  [][ /\ handleRemoveSelectedBanners =>
           /\ banners' = Kept(banners, selectedBannerIds)
           /\ readyBanners' = readyBanners \ selectedBannerIds
           /\ selectedBannerIds' = {}
      /\ \A id \in Ids(banners) : RemoveBanner(id) =>
           /\ banners' = Kept(banners, {id})
           /\ readyBanners' = readyBanners \ {id}
           /\ selectedBannerIds' = selectedBannerIds \ {id} ]_vars

\* C25's case: removeSelected has removed a creative that was in ReadySet and
\* another creative, not selected, is still in the registry and in ReadySet.
C25_Witness ==
  /\ hostOp.name = "removeSelected"
  /\ hostOp.cleared
  /\ banners # << >>
  /\ Ids(banners) \cap readyBanners # {}
  /\ selectedBannerIds = {}

\* C29: every id in ReadySet and every id in SelectionSet is the id of a
\* creative in the registry.
C29_SetsWithinRegistry ==
  /\ readyBanners \subseteq Ids(banners)
  /\ selectedBannerIds \subseteq Ids(banners)

\* ------------------------------------------------------------------------
\* Readiness announcements: the agents' bannerReady and the host window
\* ------------------------------------------------------------------------
\* The render surface of a creative: the BannerCard mounted under its key.
Surface(b) == << b.id, RenderKey(b) >>

\* The agent in the iframe of the i-th creative finds its timeline and posts
\* bannerReady to the parent window (once per document).
Announce(i) ==
  /\ i \in 1..Len(banners)
  /\ IsPreview(banners[i])
  /\ Surface(banners[i]) \notin announced
  /\ announced' = announced \cup { Surface(banners[i]) }
  /\ readyPosts' = Append(readyPosts, banners[i].id)
  /\ UNCHANGED notReady

\* The host window dispatches a bannerReady message event.  The only message
\* listeners of the host are the handleMessage of pending captures, which
\* act on screenshotCaptured and screenshotFailed; BannerCard does not use
\* its onSetBannerAsReady prop.
DispatchReady ==
  /\ readyPosts # << >>
  /\ readyPosts' = Tail(readyPosts)
  /\ UNCHANGED announced
  /\ UNCHANGED notReady

NextReady ==
  \/ NextBoard
  \/ \E i \in 1..Len(banners) : Announce(i)
  \/ DispatchReady

\* The agent of the creative b has announced readiness and the host window
\* has dispatched the message.
Heard(b) ==
  /\ Surface(b) \in announced
  /\ \A k \in 1..Len(readyPosts) : readyPosts[k] # b.id

\* C28: once the bannerReady of a registered creative has been dispatched in
\* the host window, the creative's id is eventually in ReadySet (or the
\* creative is removed or reloaded); so an uploaded group whose agents have
\* all announced readiness eventually has play and pause permitted.
C28_ReadyHeard ==
  \A id \in 1..MaxUuid :
    (\E i \in 1..Len(banners) : banners[i].id = id /\ Heard(banners[i]))
      ~> (id \in readyBanners \/ \A i \in 1..Len(banners) : banners[i].id = id => ~Heard(banners[i]))

\* C30: a creative served under /api/preview is in ReadySet only if the agent
\* of its present render surface has announced readiness.
C30_ReadyOnlyIfAnnounced ==
  \A i \in 1..Len(banners) :
    (IsPreview(banners[i]) /\ banners[i].id \in readyBanners)
      => Surface(banners[i]) \in announced

\* ------------------------------------------------------------------------
\* Specifications
\* ------------------------------------------------------------------------
\* A component that a specification does not exercise stays as it starts.
ServeIdle == slug = << >> /\ response = NoResponse

FindIdle == entries = << >> /\ htmlFile = NotRun
SizeIdle == htmlContent = << >> /\ adSize = NotMeasured
MemoIdle == propBanners = << >> /\ memoLargest = NotComputed
CardIdle ==
  /\ isDataUrl = FALSE
  /\ isLoading = TRUE
  /\ isError = FALSE
  /\ iframeSrc = "url"
  /\ iframeLoad = "pending"
  /\ cardTimeoutId = "none"
  /\ srcTimeouts = 0
  /\ doneTimeouts = 0
  /\ effectLoading = "never"
  /\ reloads = 0
StorageIdle ==
  /\ storedWorkspace = MissingItem
  /\ storedPresets = MissingItem
  /\ boardBanners = JsonArray(<< >>)
  /\ boardPresets = JsonArray(<< >>)
  /\ boardReady = {}
  /\ boot = "mounting"
ListenerIdle ==
  /\ listenerScript = "loading"
  /\ exposedTimeline = 0
  /\ cachedTimeline = 0
  /\ globalPlayPause = FALSE
  /\ steps = << >>
ReadyIdle ==
  /\ announced = {}
  /\ readyPosts = << >>
IngestIdle == request = FormData(NoFile, "") /\ reply = NoReply /\ disk = NoDisk

\* An incoming request; an extracted bundle; an entry document.
ServeStart == slug \in Slugs /\ response = NoResponse
FindStart == entries \in RootListings /\ htmlFile = NotRun
SizeStart == htmlContent \in Documents /\ adSize = NotMeasured
MemoStart == propBanners \in Registries /\ memoLargest = NotComputed
\* The card's first render, of a remote or of a data-URL creative.
CardStart ==
  /\ isDataUrl \in BOOLEAN
  /\ isLoading = TRUE
  /\ isError = FALSE
  /\ iframeSrc = "url"
  /\ iframeLoad = "pending"
  /\ cardTimeoutId = "none"
  /\ srcTimeouts = 0
  /\ doneTimeouts = 0
  /\ effectLoading = "never"
  /\ reloads = 0
\* BannerBoard before its load effect, over what localStorage may hold.
StorageStart ==
  /\ storedWorkspace \in Items
  /\ storedPresets \in Items
  /\ boardBanners = JsonArray(<< >>)
  /\ boardPresets = JsonArray(<< >>)
  /\ boardReady = {}
  /\ boot = "mounting"
\* The agent of route.ts when its document starts loading, in a creative with
\* or without bare global play and pause functions.
ListenerStart ==
  /\ listenerScript = "loading"
  /\ exposedTimeline = 0
  /\ cachedTimeline = 0
  /\ globalPlayPause \in BOOLEAN
  /\ steps = << >>
IngestStart ==
  /\ request \in { FormData(f, g) : f \in UploadFiles, g \in {"", "G1"} }
  /\ reply = NoReply
  /\ disk = NoDisk

InitAgent ==
  /\ AgentStart
  /\ HostStart
  /\ ServeIdle
  /\ CaptureStart
  /\ FindIdle
  /\ SizeIdle
  /\ IngestIdle
  /\ UploadStart
  /\ MemoIdle
  /\ CardIdle
  /\ StorageIdle
  /\ ListenerIdle
  /\ ReadyIdle
SpecAgent == InitAgent /\ [][NextAgent]_vars

\* The window load event fires once the document's resources are settled,
\* and a running interval timer ticks.
SpecAgentFair ==
  InitAgent /\ [][NextDiscovery]_vars /\ WF_vars(WindowLoad) /\ WF_vars(PollTick)

InitHost ==
  /\ HostStart
  /\ AgentStart
  /\ ServeIdle
  /\ CaptureStart
  /\ FindIdle
  /\ SizeIdle
  /\ IngestIdle
  /\ UploadStart
  /\ MemoIdle
  /\ CardIdle
  /\ StorageIdle
  /\ ListenerIdle
  /\ ReadyIdle
SpecHost == InitHost /\ [][NextHost]_vars
SpecBoard == InitHost /\ [][NextBoard]_vars
SpecRemoval == InitHost /\ [][NextRemoval]_vars
SpecReady == InitHost /\ [][NextReady]_vars

\* A message posted to the host window is dispatched.
SpecReadyFair == InitHost /\ [][NextReady]_vars /\ WF_vars(DispatchReady)

InitServe ==
  /\ ServeStart
  /\ AgentStart
  /\ HostStart
  /\ CaptureStart
  /\ FindIdle
  /\ SizeIdle
  /\ IngestIdle
  /\ UploadStart
  /\ MemoIdle
  /\ CardIdle
  /\ StorageIdle
  /\ ListenerIdle
  /\ ReadyIdle
SpecServe == InitServe /\ [][NextServe]_vars

InitCapture ==
  /\ CaptureStart
  /\ AgentStart
  /\ HostStart
  /\ ServeIdle
  /\ FindIdle
  /\ SizeIdle
  /\ IngestIdle
  /\ UploadStart
  /\ MemoIdle
  /\ CardIdle
  /\ StorageIdle
  /\ ListenerIdle
  /\ ReadyIdle
SpecCapture == InitCapture /\ [][NextCapture]_vars

\* Timers fire: the callback of an armed setTimeout eventually runs.
SpecCaptureFair ==
  InitCapture /\ [][NextCapture]_vars /\ \A i \in 1..MaxCalls : WF_vars(Timeout(i))

InitFind ==
  /\ FindStart
  /\ AgentStart
  /\ HostStart
  /\ ServeIdle
  /\ CaptureStart
  /\ SizeIdle
  /\ IngestIdle
  /\ UploadStart
  /\ MemoIdle
  /\ CardIdle
  /\ StorageIdle
  /\ ListenerIdle
  /\ ReadyIdle
SpecFind == InitFind /\ [][NextFind]_vars

InitSize ==
  /\ SizeStart
  /\ AgentStart
  /\ HostStart
  /\ ServeIdle
  /\ CaptureStart
  /\ FindIdle
  /\ IngestIdle
  /\ UploadStart
  /\ MemoIdle
  /\ CardIdle
  /\ StorageIdle
  /\ ListenerIdle
  /\ ReadyIdle
SpecSize == InitSize /\ [][NextSize]_vars

InitIngest ==
  /\ IngestStart
  /\ AgentStart
  /\ HostStart
  /\ ServeIdle
  /\ CaptureStart
  /\ FindIdle
  /\ SizeIdle
  /\ UploadStart
  /\ MemoIdle
  /\ CardIdle
  /\ StorageIdle
  /\ ListenerIdle
  /\ ReadyIdle
SpecIngest == InitIngest /\ [][NextIngest]_vars

InitUpload ==
  /\ UploadStart
  /\ AgentStart
  /\ HostStart
  /\ ServeIdle
  /\ CaptureStart
  /\ FindIdle
  /\ SizeIdle
  /\ IngestIdle
  /\ MemoIdle
  /\ CardIdle
  /\ StorageIdle
  /\ ListenerIdle
  /\ ReadyIdle
SpecUpload == InitUpload /\ [][NextUpload]_vars


InitMemo ==
  /\ MemoStart
  /\ AgentStart
  /\ HostStart
  /\ ServeIdle
  /\ CaptureStart
  /\ FindIdle
  /\ SizeIdle
  /\ IngestIdle
  /\ UploadStart
  /\ CardIdle
  /\ StorageIdle
  /\ ListenerIdle
  /\ ReadyIdle
SpecMemo == InitMemo /\ [][NextMemo]_vars

InitCard ==
  /\ CardStart
  /\ AgentStart
  /\ HostStart
  /\ ServeIdle
  /\ CaptureStart
  /\ FindIdle
  /\ SizeIdle
  /\ IngestIdle
  /\ UploadStart
  /\ MemoIdle
  /\ StorageIdle
  /\ ListenerIdle
  /\ ReadyIdle
SpecCard == InitCard /\ [][NextCard]_vars

\* React runs an effect whose dependencies changed, and the callback of an
\* armed setTimeout eventually runs.
SpecCardFair ==
  InitCard /\ [][NextCard]_vars /\ WF_vars(Effect) /\ WF_vars(LoadTimeout)

InitStorage ==
  /\ StorageStart
  /\ AgentStart
  /\ HostStart
  /\ ServeIdle
  /\ CaptureStart
  /\ FindIdle
  /\ SizeIdle
  /\ IngestIdle
  /\ UploadStart
  /\ MemoIdle
  /\ CardIdle
  /\ ListenerIdle
  /\ ReadyIdle
SpecStorage == InitStorage /\ [][NextStorage]_vars

InitListener ==
  /\ ListenerStart
  /\ AgentStart
  /\ HostStart
  /\ ServeIdle
  /\ CaptureStart
  /\ FindIdle
  /\ SizeIdle
  /\ IngestIdle
  /\ UploadStart
  /\ MemoIdle
  /\ CardIdle
  /\ StorageIdle
  /\ ReadyIdle
SpecListener == InitListener /\ [][NextListener]_vars
====
